---- MODULE Spec2Model ----
(***************************************************************************)
(* Oracle-pool node (oracle-core): the refresh consensus algorithm of      *)
(* src/core/src/pool_commands/refresh.rs and the main loop of              *)
(* src/core/src/main.rs.                                                   *)
(*                                                                         *)
(*   FilterSpec  the deviation filter filtered_oracle_boxes_by_rate, run   *)
(*               one loop iteration per step on bounded lists of rates.    *)
(*   Spec        build_refresh_action on bounded pool / refresh /          *)
(*               datapoint boxes.                                          *)
(*   DriverSpec  the loop of the run command: each iteration reads the     *)
(*               height, classifies the pool state, plans a command,       *)
(*               builds the action and executes it, while the chain adds   *)
(*               blocks, with the refreshes of other nodes of the pool in  *)
(*               them.  DriverLiveSpec adds weak fairness of the loop.     *)
(*   StartupSpec the start of the run command: register_and_save_scans     *)
(*               with the sidecar scanIDs.json, then the loop.             *)
(*   OperatorsSpec  the operators of one pool, each running the loop with  *)
(*               a working feed and a funded wallet, on a chain that       *)
(*               grows.  OperatorsLiveSpec adds weak fairness of every     *)
(*               loop and of the chain.                                    *)
(*   BuilderSpec one call of a builder of the operator's datapoint box:    *)
(*               first publish, subsequent publish, transfer of the oracle *)
(*               token, on bounded boxes, wallets and addresses.           *)
(*                                                                         *)
(* Rates are u64 in the code.  Every rate, sum and product of the model    *)
(* stays below 2^31, far from the u64 limit, so the u64 operations of the  *)
(* code never wrap inside the bounds and are modelled by plain integer     *)
(* operations.  The f32 arithmetic of the trimming step is modelled with   *)
(* its rounding (24-bit significand, round to nearest, ties to even).      *)
(***************************************************************************)
EXTENDS Integers, Sequences, FiniteSets, TLC

VARIABLES
    \* ---- FilterSpec: one call of filtered_oracle_boxes_by_rate
    oracle_boxes,       \* the argument: Vec<u64> of rates
    deviation_range,    \* the argument: u32 percent
    successful_boxes,   \* the local of the while loop
    iterations,         \* how many times the loop body has run
    f_pc,               \* "call" | "loop" | "returned"
    f_result,           \* Result<Vec<u64>, RefreshActionError> once returned
    \* ---- Spec: one call of build_refresh_action
    in_pool_box,        \* what pool_box_source.get_pool_box() yields
    in_refresh_box,     \* what refresh_box_source.get_refresh_box() yields
    datapoint_stage,    \* what get_oracle_datapoint_boxes() yields, in scan order
    height,             \* the argument: current block height
    r_pc,               \* "call" | "returned"
    r_result,           \* Result<RefreshAction, RefreshActionError> once returned
    \* ---- DriverSpec: the loop of handle_oracle_command(Command::Run)
    local_scan_registered, \* OraclePool::local_oracle_datapoint_scan is Some
    read_only,          \* the flag of Command::Run
    chain_height,       \* the height of the chain
    chain_pool_box,     \* the unspent box with the pool NFT, if any
    chain_local_box,    \* the unspent datapoint box of the operator, if any
    mempool,            \* transactions the node accepted, not yet in a block
    submitted,          \* the transactions handed to execute_action, in order
    d_pc,               \* "sleep" | "classify" | "build" | "execute" | "stopped"
    tick_height,        \* main_loop_iteration: height
    pool_state,         \* main_loop_iteration: pool_state
    cmd,                \* main_loop_iteration: what process returned
    build_action_res,   \* main_loop_iteration: build_action_res
    action,             \* main_loop_iteration: the action to execute
    tick_result,        \* what the last main_loop_iteration returned
    ticks,              \* how many iterations have begun
    refreshes,          \* the refresh transactions the chain has accepted
    \* ---- BuilderSpec: one call of a builder that spends or creates the
    \*      operator's datapoint box
    b_local_box,        \* the operator's datapoint box in the local scan, if any
    b_wallet,           \* what the wallet holds
    b_destination,      \* transfer: the argument oracle_token_destination
    b_datapoint_source, \* publish: what DataPointSource::get_datapoint returns
    b_new_epoch_counter, \* publish: the argument new_epoch_counter
    b_height,           \* the argument height
    b_call,             \* "idle" | "none" | "transfer" | "publish" | "publish_first"
    b_result,           \* the Result of the call once it has returned
    \* ---- StartupSpec: the start of handle_oracle_command, up to the loop
    s_config,           \* ORACLE_CONFIG: pool contract hash and reward token id
    s_sidecar_at_start, \* scanIDs.json as the process finds it
    s_sidecar,          \* scanIDs.json now
    s_pool_box,         \* what the pool box scan of the old sidecar yields
    s_node_scans,       \* how many times the scans were registered with the node
    s_rescans,          \* how many rescans the node was asked for
    s_writes,           \* how many times scanIDs.json was written
    s_pc,               \* "start" | "wait" | "loop" | "stopped"
    s_result,           \* what register_and_save_scans returned
    s_iterations,       \* iterations of the loop that have run
    \* ---- OperatorsSpec: the operators of one pool, each running the loop
    o_pool_box,         \* the unspent box with the pool NFT
    o_oracle_boxes,     \* operator -> its unspent datapoint box
    o_last,             \* operator -> how its last iteration ended
    o_iterations        \* operator -> the iterations its loop has run, modulo 2

filterVars == <<oracle_boxes, deviation_range, successful_boxes, iterations, f_pc, f_result>>

refreshVars == <<in_pool_box, in_refresh_box, datapoint_stage, height, r_pc, r_result>>

driverVars == <<local_scan_registered, read_only, chain_height, chain_pool_box, chain_local_box, mempool, submitted, d_pc, tick_height, pool_state, cmd, build_action_res, action, tick_result, ticks, refreshes>>

builderVars == <<b_local_box, b_wallet, b_destination, b_datapoint_source, b_new_epoch_counter, b_height, b_call, b_result>>

startupVars == <<s_config, s_sidecar_at_start, s_sidecar, s_pool_box, s_node_scans, s_rescans, s_writes, s_pc, s_result, s_iterations>>

operatorsVars == <<o_pool_box, o_oracle_boxes, o_last, o_iterations>>

vars == <<filterVars, refreshVars, driverVars, builderVars, startupVars, operatorsVars>>

----------------------------------------------------------------------------
(* Bounds of the model.                                                    *)

\* longest list of rates fed to the filter
MaxLen == 4

\* small rates are 0..MaxRate
MaxRate == 3

\* 2^24: from here on not every integer is an f32 (refresh.rs:208, `as f32`)
F32_INT_LIMIT == 16777216

\* rates fed to the filter: small ones, on which f32 is exact, and two at the
\* edge of f32's integer range, on which `as f32` rounds
FilterRates == (0..MaxRate) \cup {F32_INT_LIMIT, F32_INT_LIMIT + 1}

\* deviation percents fed to the filter
FilterDeviations == {5, 50}

----------------------------------------------------------------------------
(* Results: Rust's Result<T, E>.                                           *)

Ok(v) == [ok |-> TRUE, val |-> v]

Err(e) == [ok |-> FALSE, err |-> e]

NoResult == [ok |-> FALSE, err |-> "none"]

----------------------------------------------------------------------------
(* Vec<u64> helpers: iter().min(), iter().max(), iter().sum().             *)

RECURSIVE SeqSum(_)
SeqSum(s) == IF s = <<>> THEN 0 ELSE Head(s) + SeqSum(Tail(s))

SeqMin(s) == CHOOSE x \in {s[i] : i \in DOMAIN s} : \A j \in DOMAIN s : x <= s[j]

SeqMax(s) == CHOOSE x \in {s[i] : i \in DOMAIN s} : \A j \in DOMAIN s : x >= s[j]

----------------------------------------------------------------------------
(* f32 arithmetic (IEEE-754 binary32, round to nearest, ties to even).     *)

Pow2(n) == 2 ^ n

RECURSIVE BitLen(_)
BitLen(x) == IF x = 0 THEN 0 ELSE 1 + BitLen(x \div 2)

\* the integer nearest to a / b, ties to the even one (a >= 0, b > 0)
RneDiv(a, b) ==
    LET q == a \div b
        r == a % b
    IN  IF 2 * r < b THEN q
        ELSE IF 2 * r > b THEN q + 1
        ELSE IF q % 2 = 0 THEN q ELSE q + 1

Abs(x) == IF x < 0 THEN 0 - x ELSE x

\* x rounded to 24 significant bits: the f32 nearest to the integer x, and,
\* for x counted in units of a power of two, the f32 nearest to that value
RoundSig24(x) ==
    LET a == Abs(x)
        b == BitLen(a)
    IN  IF b <= 24 THEN x
        ELSE LET u == Pow2(b - 24)
                 v == RneDiv(a, u) * u
             IN  IF x < 0 THEN 0 - v ELSE v

\* `x as f32` for an unsigned integer x
as_f32(x) == RoundSig24(x)

\* number of binary fraction digits of the f32 quotient a / n: k plus the
\* least j with a * 2^j / n >= 2^23 (k when the quotient is 0)
RECURSIVE FractionBits(_, _, _)
FractionBits(a, n, k) ==
    IF a = 0 \/ a \div n >= 8388608 THEN k
    ELSE FractionBits(2 * a, n, k + 1)

\* the f32 quotient a / n of an f32 integer a by a small integer n, counted
\* in units of 2^-k, k = FractionBits(a, n, 0)
F32Div(a, n, k) ==
    IF k > 0 THEN RneDiv(a * Pow2(k), n)
    ELSE IF a = 0 THEN 0
    ELSE LET u == Pow2(BitLen(a \div n) - 24)
         IN  RneDiv(a, n * u) * u

----------------------------------------------------------------------------
(* The deviation filter.                                                   *)

\* a deviation check that forgets the division by 100
deviation_check_no_percent(max_deviation_range, datapoint_boxes) ==
    SeqMax(datapoint_boxes) - SeqMin(datapoint_boxes)
        <= SeqMax(datapoint_boxes) * max_deviation_range

\* a deviation check with `<` for `<=`
deviation_check_strict(max_deviation_range, datapoint_boxes) ==
    SeqMax(datapoint_boxes) - SeqMin(datapoint_boxes)
        < (SeqMax(datapoint_boxes) * max_deviation_range) \div 100

\* fn deviation_check
deviation_check(max_deviation_range, datapoint_boxes) ==
    LET min_datapoint == SeqMin(datapoint_boxes)
        max_datapoint == SeqMax(datapoint_boxes)
        deviation_delta == (max_datapoint * max_deviation_range) \div 100
    IN  max_datapoint - min_datapoint <= deviation_delta

\* lines 208-213: front_deviation >= back_deviation, in f32
front_deviation_ge_back(datapoint_boxes) ==
    LET sum == as_f32(SeqSum(datapoint_boxes))
        n == Len(datapoint_boxes)
        k == FractionBits(sum, n, 0)
        mean == F32Div(sum, n, k)
        min_datapoint == as_f32(SeqMin(datapoint_boxes)) * Pow2(k)
        max_datapoint == as_f32(SeqMax(datapoint_boxes)) * Pow2(k)
        front_deviation == RoundSig24(max_datapoint - mean)
        back_deviation == RoundSig24(mean - min_datapoint)
    IN  front_deviation >= back_deviation

\* a removal that starts one element too early (`< 2` for `<= 2`)
remove_from_two(datapoint_boxes) ==
    IF Len(datapoint_boxes) < 2 THEN Err("NotEnoughDatapoints")
    ELSE IF front_deviation_ge_back(datapoint_boxes)
         THEN Ok(SelectSeq(datapoint_boxes, LAMBDA dp : dp # SeqMax(datapoint_boxes)))
         ELSE Ok(SelectSeq(datapoint_boxes, LAMBDA dp : dp # SeqMin(datapoint_boxes)))

\* a removal by position, which takes the list to be sorted: it drops the
\* last element for the max and the first for the min
remove_by_position(datapoint_boxes) ==
    IF Len(datapoint_boxes) <= 2 THEN Err("NotEnoughDatapoints")
    ELSE IF front_deviation_ge_back(datapoint_boxes)
         THEN Ok(SubSeq(datapoint_boxes, 1, Len(datapoint_boxes) - 1))
         ELSE Ok(Tail(datapoint_boxes))

\* fn remove_largest_local_deviation_datapoint
remove_largest_local_deviation_datapoint(datapoint_boxes) ==
    IF Len(datapoint_boxes) <= 2 THEN Err("NotEnoughDatapoints")
    ELSE LET min_datapoint == SeqMin(datapoint_boxes)
             max_datapoint == SeqMax(datapoint_boxes)
         IN  IF front_deviation_ge_back(datapoint_boxes)
             THEN Ok(SelectSeq(datapoint_boxes, LAMBDA dp : dp # max_datapoint))
             ELSE Ok(SelectSeq(datapoint_boxes, LAMBDA dp : dp # min_datapoint))

\* the while loop of filtered_oracle_boxes_by_rate, run to its end
RECURSIVE filter_loop(_, _)
filter_loop(boxes, range) ==
    IF deviation_check(range, boxes) THEN Ok(boxes)
    ELSE LET r == remove_largest_local_deviation_datapoint(boxes)
         IN  IF r.ok THEN filter_loop(r.val, range) ELSE r

\* fn filtered_oracle_boxes_by_rate
filtered_oracle_boxes_by_rate(boxes, range) ==
    IF boxes = <<>> THEN Ok(boxes) ELSE filter_loop(boxes, range)

----------------------------------------------------------------------------
(* FilterSpec: filtered_oracle_boxes_by_rate, one loop iteration per step. *)

SeqsUpTo(S, n) == UNION {[1..m -> S] : m \in 0..n}

\* Option::None, Option::Some
None == [some |-> FALSE]

Some(v) == [some |-> TRUE, val |-> v]

\* no box
NoBox == [present |-> FALSE]

\* no driver loop is modelled
DriverIdle ==
    /\ local_scan_registered = FALSE
    /\ read_only = FALSE
    /\ chain_height = 0
    /\ chain_pool_box = NoBox
    /\ chain_local_box = NoBox
    /\ mempool = <<>>
    /\ submitted = <<>>
    /\ d_pc = "idle"
    /\ tick_height = 0
    /\ pool_state = None
    /\ cmd = None
    /\ build_action_res = NoResult
    /\ action = None
    /\ tick_result = NoResult
    /\ ticks = 0
    /\ refreshes = <<>>

\* no call of a datapoint box builder is modelled
BuilderIdle ==
    /\ b_local_box = NoBox
    /\ b_wallet = ""
    /\ b_destination = <<>>
    /\ b_datapoint_source = NoResult
    /\ b_new_epoch_counter = 0
    /\ b_height = 0
    /\ b_call = "idle"
    /\ b_result = NoResult

\* no start of the process is modelled
StartupIdle ==
    /\ s_config = <<>>
    /\ s_sidecar_at_start = NoBox
    /\ s_sidecar = NoBox
    /\ s_pool_box = NoResult
    /\ s_node_scans = 0
    /\ s_rescans = 0
    /\ s_writes = 0
    /\ s_pc = "idle"
    /\ s_result = NoResult
    /\ s_iterations = 0

\* no pool of operators is modelled
OperatorsIdle ==
    /\ o_pool_box = NoBox
    /\ o_oracle_boxes = <<>>
    /\ o_last = <<>>
    /\ o_iterations = <<>>

\* no call of build_refresh_action is modelled
RefreshIdle ==
    /\ in_pool_box = <<>>
    /\ in_refresh_box = <<>>
    /\ datapoint_stage = <<>>
    /\ height = 0
    /\ r_pc = "idle"
    /\ r_result = NoResult

\* no call of filtered_oracle_boxes_by_rate is modelled
FilterIdle ==
    /\ oracle_boxes = <<>>
    /\ deviation_range = 0
    /\ successful_boxes = <<>>
    /\ iterations = 0
    /\ f_pc = "idle"
    /\ f_result = NoResult

FilterInit ==
    /\ oracle_boxes \in SeqsUpTo(FilterRates, MaxLen)
    /\ deviation_range \in FilterDeviations
    /\ successful_boxes = <<>>
    /\ iterations = 0
    /\ f_pc = "call"
    /\ f_result = NoResult
    /\ RefreshIdle
    /\ DriverIdle
    /\ BuilderIdle
    /\ StartupIdle
    /\ OperatorsIdle

\* lines 178-180: an empty list is returned as it is
FilterReturnEmpty ==
    /\ f_pc = "call"
    /\ oracle_boxes = <<>>
    /\ f_pc' = "returned"
    /\ f_result' = Ok(oracle_boxes)
    /\ UNCHANGED <<oracle_boxes, deviation_range, successful_boxes, iterations>>
    /\ UNCHANGED <<refreshVars, driverVars, builderVars, startupVars, operatorsVars>>

\* line 181
FilterStart ==
    /\ f_pc = "call"
    /\ oracle_boxes # <<>>
    /\ successful_boxes' = oracle_boxes
    /\ f_pc' = "loop"
    /\ UNCHANGED <<oracle_boxes, deviation_range, iterations, f_result>>
    /\ UNCHANGED <<refreshVars, driverVars, builderVars, startupVars, operatorsVars>>

\* line 183 false, line 188
FilterPass ==
    /\ f_pc = "loop"
    /\ deviation_check(deviation_range, successful_boxes)
    /\ f_pc' = "returned"
    /\ f_result' = Ok(successful_boxes)
    /\ UNCHANGED <<oracle_boxes, deviation_range, successful_boxes, iterations>>
    /\ UNCHANGED <<refreshVars, driverVars, builderVars, startupVars, operatorsVars>>

\* lines 183-185, the removal succeeds
FilterRemove ==
    /\ f_pc = "loop"
    /\ ~deviation_check(deviation_range, successful_boxes)
    /\ LET r == remove_largest_local_deviation_datapoint(successful_boxes)
       IN  /\ r.ok
           /\ successful_boxes' = r.val
    /\ iterations' = iterations + 1
    /\ UNCHANGED <<oracle_boxes, deviation_range, f_pc, f_result>>
    /\ UNCHANGED <<refreshVars, driverVars, builderVars, startupVars, operatorsVars>>

\* lines 183-185, `?` returns the error
FilterNotEnough ==
    /\ f_pc = "loop"
    /\ ~deviation_check(deviation_range, successful_boxes)
    /\ LET r == remove_largest_local_deviation_datapoint(successful_boxes)
       IN  /\ ~r.ok
           /\ f_result' = r
    /\ f_pc' = "returned"
    /\ UNCHANGED <<oracle_boxes, deviation_range, successful_boxes, iterations>>
    /\ UNCHANGED <<refreshVars, driverVars, builderVars, startupVars, operatorsVars>>

FilterNext ==
    \/ FilterReturnEmpty
    \/ FilterStart
    \/ FilterPass
    \/ FilterRemove
    \/ FilterNotEnough

FilterSpec == FilterInit /\ [][FilterNext]_vars

----------------------------------------------------------------------------
(* Properties of the deviation filter (FilterSpec).                        *)

\* how often x occurs in s
Count(s, x) == Cardinality({i \in DOMAIN s : s[i] = x})

SameMultiset(s, t) ==
    /\ Len(s) = Len(t)
    /\ \A i \in DOMAIN s : Count(s, s[i]) = Count(t, s[i])

\* two results agree: the same error, or the same multiset of rates
SameOutcome(r1, r2) ==
    /\ r1.ok = r2.ok
    /\ r1.ok => SameMultiset(r1.val, r2.val)
    /\ ~r1.ok => r1.err = r2.err

\* s without one occurrence of x
RemoveOne(s, x) ==
    LET i == CHOOSE j \in DOMAIN s : s[j] = x
    IN  SubSeq(s, 1, i - 1) \o SubSeq(s, i + 1, Len(s))

\* the rates of s in ascending order
RECURSIVE SortRates(_)
SortRates(s) ==
    IF s = <<>> THEN <<>>
    ELSE LET m == SeqMin(s)
         IN  <<m>> \o SortRates(RemoveOne(s, m))

\* C1: whenever the filter returns a retained list F, |F| <= 1 or
\* max(F) - min(F) <= floor(max(F) * d / 100).
C1_FilteredWithinDeviation ==
    (f_pc = "returned" /\ f_result.ok) =>
        \/ Len(f_result.val) <= 1
        \/ \A i, j \in DOMAIN f_result.val :
              f_result.val[i] - f_result.val[j]
                  <= (SeqMax(f_result.val) * deviation_range) \div 100

\* a list of several different rates was trimmed and the rest returned
C1_Witness ==
    /\ f_pc = "returned"
    /\ f_result.ok
    /\ iterations >= 1
    /\ Len(f_result.val) >= 2
    /\ SeqMax(f_result.val) > SeqMin(f_result.val)

\* the reference procedure of the specification: one candidate is dropped
\* per iteration, one occurrence of the max when max - mean >= mean - min
\* (n * max - sum >= sum - n * min), otherwise one occurrence of the min
RECURSIVE ReferenceTrim(_, _)
ReferenceTrim(s, d) ==
    IF s = <<>> THEN Ok(s)
    ELSE IF SeqMax(s) - SeqMin(s) <= (SeqMax(s) * d) \div 100 THEN Ok(s)
    ELSE IF Len(s) <= 2 THEN Err("NotEnoughDatapoints")
    ELSE IF Len(s) * SeqMax(s) - SeqSum(s) >= SeqSum(s) - Len(s) * SeqMin(s)
         THEN ReferenceTrim(RemoveOne(s, SeqMax(s)), d)
         ELSE ReferenceTrim(RemoveOne(s, SeqMin(s)), d)

\* C7: the filter gives the outcome of the reference procedure, the same
\* retained multiset or the same NotEnoughDatapoints failure.
C7_SameAsReference ==
    f_pc = "returned" =>
        SameOutcome(f_result, ReferenceTrim(oracle_boxes, deviation_range))

\* C8: the filter fails, with NotEnoughDatapoints, exactly when the retained
\* list has 2 or fewer candidates and the deviation check still fails, and
\* it removes no candidate from a list of 2 or fewer.
C8_NotEnoughExactlyAtTwo ==
    /\ [](f_pc = "returned" /\ ~f_result.ok =>
            /\ f_result.err = "NotEnoughDatapoints"
            /\ Len(successful_boxes) <= 2
            /\ ~deviation_check(deviation_range, successful_boxes))
    /\ [][(/\ f_pc = "loop"
            /\ Len(successful_boxes) <= 2
            /\ ~deviation_check(deviation_range, successful_boxes))
               => (/\ f_pc' = "returned"
                   /\ f_result' = Err("NotEnoughDatapoints")
                   /\ successful_boxes' = successful_boxes)]_vars
    /\ [][successful_boxes' # successful_boxes /\ f_pc = "loop"
               => Len(successful_boxes) > 2]_vars

\* the filter trimmed a list down to two rates too far apart and failed
C8_Witness ==
    /\ f_pc = "returned"
    /\ ~f_result.ok
    /\ iterations >= 1
    /\ Len(successful_boxes) = 2

\* C9: filtering is order-independent, filter(sort(R), d) = filter(R, d) as
\* multisets or as failures.  Every list over the rates is an input of
\* FilterSpec and every permutation of a list has the same sorted list, so
\* two permutations of one list have the same outcome.
C9_OrderIndependent ==
    f_pc = "returned" =>
        /\ SameMultiset(SortRates(oracle_boxes), oracle_boxes)
        /\ SameOutcome(
               filtered_oracle_boxes_by_rate(SortRates(oracle_boxes), deviation_range),
               f_result)

\* an unsorted list was trimmed and the rest returned
C9_Witness ==
    /\ f_pc = "returned"
    /\ f_result.ok
    /\ iterations >= 1
    /\ Len(f_result.val) >= 2
    /\ \E i \in 1..(Len(oracle_boxes) - 1) : oracle_boxes[i] > oracle_boxes[i + 1]

----------------------------------------------------------------------------
(* build_refresh_action: boxes, tokens, wallet.                            *)

\* most datapoint boxes the scan yields
MaxBoxes == 3

\* configuration of the pool: the arguments min_data_points and
\* max_deviation_percent, and the epoch length of the refresh contract
min_data_points == 2

max_deviation_percent == 5

EpochLength == 3

\* the argument my_oracle_pk: the operator's public key (box i of another
\* oracle carries the key i >= 1)
my_oracle_pk == 0

\* rates of the datapoint boxes
RefreshRates == {95, 100, 200}

\* what the wallet source and the box selector can do
Wallets == {"funded", "unfunded", "unreachable"}

Panic(msg) == [ok |-> FALSE, err |-> "panic", msg |-> msg]

\* TokenAmount of ergo-lib: 1 ..= i64::MAX
token_amount_try_from(x) ==
    IF x >= 1 THEN Ok(x) ELSE Err("TokenAmountError")

\* a subtraction that does not check its result
token_amount_unchecked_sub(a, b) == Ok(a - b)

token_amount_checked_sub(a, b) ==
    IF a >= b /\ a - b >= 1 THEN Ok(a - b) ELSE Err("TokenAmountError")

token_amount_checked_add(a, b) == Ok(a + b)

\* box_kind::make_pool_box_candidate
make_pool_box_candidate(contract, rate, epoch_counter, pool_nft, reward_token, value, creation_height) ==
    [contract |-> contract, rate |-> rate, epoch_counter |-> epoch_counter,
     pool_nft |-> pool_nft, reward_tokens |-> reward_token, value |-> value,
     creation_height |-> creation_height]

\* box_kind::make_refresh_box_candidate
make_refresh_box_candidate(contract, refresh_nft, value, creation_height) ==
    [contract |-> contract, refresh_nft |-> refresh_nft, value |-> value,
     creation_height |-> creation_height]

\* box_kind::make_collected_oracle_box_candidate
make_collected_oracle_box_candidate(contract, public_key, oracle_token, reward_token, value, creation_height) ==
    [contract |-> contract, public_key |-> public_key, oracle_token |-> oracle_token,
     reward_tokens |-> reward_token, value |-> value,
     creation_height |-> creation_height]

\* a pool rate rounded up
calc_pool_rate_ceil(oracle_boxes_rates) ==
    IF Len(oracle_boxes_rates) = 0 THEN Panic("attempt to divide by zero")
    ELSE Ok((SeqSum(oracle_boxes_rates) + Len(oracle_boxes_rates) - 1)
                \div Len(oracle_boxes_rates))

\* fn calc_pool_rate; a panic on an empty list (division by zero)
calc_pool_rate(oracle_boxes_rates) ==
    IF Len(oracle_boxes_rates) = 0 THEN Panic("attempt to divide by zero")
    ELSE Ok(SeqSum(oracle_boxes_rates) \div Len(oracle_boxes_rates))

\* an output pool box whose epoch counter skips one
build_out_pool_box_skips_epoch(pool_box, creation_height, rate, reward_decrement) ==
    IF pool_box.reward_tokens - reward_decrement < 1
    THEN Panic("unwrap: reward tokens of the pool box")
    ELSE Ok(make_pool_box_candidate(
                pool_box.contract, rate, pool_box.epoch_counter + 2,
                pool_box.pool_nft, pool_box.reward_tokens - reward_decrement,
                pool_box.value, creation_height))

\* an output pool box that keeps the creation height of the input
build_out_pool_box_old_height(pool_box, creation_height, rate, reward_decrement) ==
    IF pool_box.reward_tokens - reward_decrement < 1
    THEN Panic("unwrap: reward tokens of the pool box")
    ELSE Ok(make_pool_box_candidate(
                pool_box.contract, rate, pool_box.epoch_counter + 1,
                pool_box.pool_nft, pool_box.reward_tokens - reward_decrement,
                pool_box.value, pool_box.creation_height))

\* an output pool box that keeps the epoch counter of the input
build_out_pool_box_same_epoch(pool_box, creation_height, rate, reward_decrement) ==
    IF pool_box.reward_tokens - reward_decrement < 1
    THEN Panic("unwrap: reward tokens of the pool box")
    ELSE Ok(make_pool_box_candidate(
                pool_box.contract, rate, pool_box.epoch_counter,
                pool_box.pool_nft, pool_box.reward_tokens - reward_decrement,
                pool_box.value, creation_height))

\* fn build_out_pool_box
build_out_pool_box(pool_box, creation_height, rate, reward_decrement) ==
    LET new_epoch_counter == pool_box.epoch_counter + 1
        decrement == token_amount_try_from(reward_decrement)
    IN  IF ~decrement.ok THEN Panic("unwrap: reward decrement")
        ELSE LET amount == token_amount_checked_sub(pool_box.reward_tokens, decrement.val)
             IN  IF ~amount.ok THEN Panic("unwrap: reward tokens of the pool box")
                 ELSE Ok(make_pool_box_candidate(
                             pool_box.contract, rate, new_epoch_counter,
                             pool_box.pool_nft, amount.val, pool_box.value,
                             creation_height))

\* an output refresh box that pays a nanoerg of the input's value
build_out_refresh_box_pays(refresh_box, creation_height) ==
    Ok(make_refresh_box_candidate(
           refresh_box.contract, refresh_box.refresh_nft, refresh_box.value - 1,
           creation_height))

\* fn build_out_refresh_box
build_out_refresh_box(refresh_box, creation_height) ==
    Ok(make_refresh_box_candidate(
           refresh_box.contract, refresh_box.refresh_nft, refresh_box.value,
           creation_height))

\* output boxes without the collector's bonus
out_oracle_box_no_bonus(in_ob, count, creation_height, my_public_key) ==
    make_collected_oracle_box_candidate(
        in_ob.contract, in_ob.public_key, in_ob.oracle_token,
        in_ob.reward_tokens + 1, in_ob.value, creation_height)

\* output boxes that all get the collector's bonus
out_oracle_box_all_bonus(in_ob, count, creation_height, my_public_key) ==
    make_collected_oracle_box_candidate(
        in_ob.contract, in_ob.public_key, in_ob.oracle_token,
        in_ob.reward_tokens + 1 + count, in_ob.value, creation_height)

\* output boxes whose collector gets one token per retained box and none for
\* its own datapoint
out_oracle_box_collector_count(in_ob, count, creation_height, my_public_key) ==
    make_collected_oracle_box_candidate(
        in_ob.contract, in_ob.public_key, in_ob.oracle_token,
        in_ob.reward_tokens + (IF in_ob.public_key = my_public_key THEN count ELSE 1),
        in_ob.value, creation_height)

\* the closure of build_out_oracle_boxes: the output box of one input box
out_oracle_box(in_ob, count, creation_height, my_public_key) ==
    LET increment == IF in_ob.public_key = my_public_key THEN 1 + count ELSE 1
        reward_token_new == token_amount_checked_add(in_ob.reward_tokens, increment)
    IN  make_collected_oracle_box_candidate(
            in_ob.contract, in_ob.public_key, in_ob.oracle_token,
            reward_token_new.val, in_ob.value, creation_height)

\* fn build_out_oracle_boxes
build_out_oracle_boxes(valid_oracle_boxes, creation_height, my_public_key) ==
    Ok([i \in DOMAIN valid_oracle_boxes |->
           out_oracle_box(valid_oracle_boxes[i], Len(valid_oracle_boxes),
                          creation_height, my_public_key)])

\* boxes left in the order of the scan
sort_by_rate_unsorted(boxes) == boxes

\* Vec::sort_by_key(|b| b.rate()): a stable sort
RECURSIVE sort_by_rate(_)
sort_by_rate(boxes) ==
    IF boxes = <<>> THEN <<>>
    ELSE LET n == Len(boxes)
             front == sort_by_rate(SubSeq(boxes, 1, n - 1))
             c == Cardinality({i \in DOMAIN front : front[i].rate <= boxes[n].rate})
         IN  SubSeq(front, 1, c) \o <<boxes[n]>> \o SubSeq(front, c + 1, n - 1)

\* lines 76 and 82: creation_height > height - epoch_length in u32.  A height
\* below the epoch length wraps to 2^32 + height - epoch_length, above every
\* creation height (a box is never created above the chain's height).
above_min_start_height(creation_height, h, epoch_length) ==
    IF h >= epoch_length THEN creation_height > h - epoch_length ELSE FALSE

\* a filter that forgets the epoch counter
is_current_datapoint_any_epoch(b, h, epoch_length, in_pool_box_epoch_id) ==
    above_min_start_height(b.creation_height, h, epoch_length)

\* a filter that also takes the boxes of the epoch before
is_current_datapoint_or_last_epoch(b, h, epoch_length, in_pool_box_epoch_id) ==
    /\ above_min_start_height(b.creation_height, h, epoch_length)
    /\ b.epoch_counter \in {in_pool_box_epoch_id, in_pool_box_epoch_id - 1}

\* lines 81-84: the filter on the datapoint boxes
is_current_datapoint(b, h, epoch_length, in_pool_box_epoch_id) ==
    /\ above_min_start_height(b.creation_height, h, epoch_length)
    /\ b.epoch_counter = in_pool_box_epoch_id

Rates(boxes) == [i \in DOMAIN boxes |-> boxes[i].rate]

PublicKeys(boxes) == [i \in DOMAIN boxes |-> boxes[i].public_key]

BoxIds(boxes) == [i \in DOMAIN boxes |-> boxes[i].box_id]

SeqToSet(s) == {s[i] : i \in DOMAIN s}

\* a position counted from 1
Position_from_one(boxes, pk) ==
    IF \E i \in DOMAIN boxes : boxes[i].public_key = pk
    THEN CHOOSE i \in DOMAIN boxes :
             /\ boxes[i].public_key = pk
             /\ \A j \in 1..(i - 1) : boxes[j].public_key # pk
    ELSE -1

\* a position that falls back to 0 when no box has the key
Position_or_zero(boxes, pk) ==
    IF \E i \in DOMAIN boxes : boxes[i].public_key = pk
    THEN (CHOOSE i \in DOMAIN boxes :
              /\ boxes[i].public_key = pk
              /\ \A j \in 1..(i - 1) : boxes[j].public_key # pk) - 1
    ELSE 0

\* Iterator::position
Position(boxes, pk) ==
    IF \E i \in DOMAIN boxes : boxes[i].public_key = pk
    THEN (CHOOSE i \in DOMAIN boxes :
              /\ boxes[i].public_key = pk
              /\ \A j \in 1..(i - 1) : boxes[j].public_key # pk) - 1
    ELSE -1

\* lines 114-172 of build_refresh_action: the wallet, the inputs, the
\* outputs, the context extensions
assemble_refresh_tx(pool_box, refresh_box, valid_in_oracle_boxes, out_pool_box, out_refresh_box, out_oracle_boxes, wallet, h, my_pk) ==
    IF wallet = "unreachable" THEN Err("WalletData")
    ELSE IF wallet = "unfunded" THEN Err("BoxSelectorError")
    ELSE LET my_input_oracle_box_index == Position(valid_in_oracle_boxes, my_pk)
         IN  IF my_input_oracle_box_index < 0 THEN Err("MyOracleBoxNoFound")
             ELSE Ok([inputs |-> <<pool_box.box_id, refresh_box.box_id>>
                                     \o BoxIds(valid_in_oracle_boxes) \o <<-3>>,
                      output_candidates |-> <<out_pool_box, out_refresh_box>>
                                                \o out_oracle_boxes,
                      creation_height |-> h,
                      context_extension |->
                          {[box_id |-> refresh_box.box_id, key |-> 0,
                            value |-> my_input_oracle_box_index]}
                          \cup {[box_id |-> valid_in_oracle_boxes[i].box_id,
                                 key |-> 0, value |-> (i - 1) + 2] :
                                    i \in DOMAIN valid_in_oracle_boxes}])

\* a gate that asks for one datapoint too many
too_few_datapoints_off_by_one(count, min_points) == count <= min_points

\* line 97: the consensus gate
too_few_datapoints(count, min_points) == count < min_points

\* lines 97-112 of build_refresh_action: the failure at the gate, the outputs
build_refresh_outputs(pool_box, refresh_box, valid_in_oracle_boxes, min_points, wallet, h, my_pk) ==
    IF too_few_datapoints(Len(valid_in_oracle_boxes), min_points)
    THEN [ok |-> FALSE, err |-> "FailedToReachConsensus",
          found_num |-> Len(valid_in_oracle_boxes),
          expected |-> min_points,
          found_public_keys |-> PublicKeys(valid_in_oracle_boxes)]
    ELSE LET rate == calc_pool_rate(Rates(valid_in_oracle_boxes))
             reward_decrement == Len(valid_in_oracle_boxes) * 2
         IN  IF ~rate.ok THEN rate
             ELSE LET out_pool_box ==
                          build_out_pool_box(pool_box, h, rate.val, reward_decrement)
                      out_refresh_box == build_out_refresh_box(refresh_box, h)
                      out_oracle_boxes ==
                          build_out_oracle_boxes(valid_in_oracle_boxes, h, my_pk)
                  IN  IF ~out_pool_box.ok THEN out_pool_box
                      ELSE assemble_refresh_tx(
                               pool_box, refresh_box, valid_in_oracle_boxes,
                               out_pool_box.val, out_refresh_box.val,
                               out_oracle_boxes.val, wallet, h, my_pk)

\* lines 78-96 of build_refresh_action: the datapoint boxes that pass the
\* filter on height and epoch, sorted by rate, and those of them whose rate
\* the deviation filter keeps
in_oracle_boxes_of(pool_box, refresh_box, boxes, h) ==
    sort_by_rate(SelectSeq(boxes, LAMBDA b :
        is_current_datapoint(b, h, refresh_box.epoch_length, pool_box.epoch_counter)))

valid_in_oracle_boxes_of(in_oracle_boxes, valid_datapoints) ==
    SelectSeq(in_oracle_boxes, LAMBDA b : b.rate \in SeqToSet(valid_datapoints))

\* fn build_refresh_action.  overflow_checks: whether the build panics on
\* integer overflow (debug) or wraps (release).
build_refresh_action(pool_box, refresh_box, boxes, max_deviation, min_points, wallet, h, my_pk, overflow_checks) ==
    IF h < refresh_box.epoch_length /\ overflow_checks
    THEN Panic("attempt to subtract with overflow")
    ELSE LET in_oracle_boxes == in_oracle_boxes_of(pool_box, refresh_box, boxes, h)
             valid_datapoints ==
                 filtered_oracle_boxes_by_rate(Rates(in_oracle_boxes), max_deviation)
         IN  IF ~valid_datapoints.ok THEN valid_datapoints
             ELSE build_refresh_outputs(
                      pool_box, refresh_box,
                      valid_in_oracle_boxes_of(in_oracle_boxes, valid_datapoints.val),
                      min_points, wallet, h, my_pk)

----------------------------------------------------------------------------
(* Spec: build_refresh_action on bounded inputs.                           *)

\* the pool box of the call
PoolBoxes ==
    {[box_id |-> -1, contract |-> "pool", pool_nft |-> 1, rate |-> 100,
      epoch_counter |-> p[1], reward_tokens |-> p[2], value |-> 1000 * p[1],
      creation_height |-> 0] : p \in {<<1, 5>>, <<1, 6>>, <<2, 100>>}}

RefreshBox ==
    [box_id |-> -2, contract |-> "refresh", refresh_nft |-> 1,
     epoch_length |-> EpochLength, value |-> 1000, creation_height |-> 0]

\* the datapoint box i of the scan: of the operator or of oracle i; posted in
\* the pool's epoch and lately, with any rate, or not to be accepted: posted
\* too long ago, or in the epoch before, or in the epoch after
DatapointBoxesAt(i, epoch) ==
    {[box_id |-> i, contract |-> "oracle", public_key |-> pk, oracle_token |-> 1,
      reward_tokens |-> i, epoch_counter |-> a[1], creation_height |-> a[2],
      rate |-> a[3], value |-> 1000 + i] :
        pk \in {my_oracle_pk, i},
        a \in {<<epoch, 2, r>> : r \in RefreshRates}
                \cup {<<epoch, 1, 100>>, <<epoch - 1, 2, 100>>, <<epoch + 1, 2, 100>>}}

\* the lists of n datapoint boxes
RECURSIVE DatapointListsOf(_, _)
DatapointListsOf(n, epoch) ==
    IF n = 0 THEN {<<>>}
    ELSE {Append(s, b) : s \in DatapointListsOf(n - 1, epoch),
                         b \in DatapointBoxesAt(n, epoch)}

DatapointLists(epoch) == UNION {DatapointListsOf(n, epoch) : n \in 0..MaxBoxes}

Init ==
    /\ in_pool_box \in PoolBoxes
    /\ in_refresh_box = RefreshBox
    /\ datapoint_stage \in DatapointLists(in_pool_box.epoch_counter)
    /\ height \in {EpochLength - 1, EpochLength + 1}
    /\ r_pc = "call"
    /\ r_result = NoResult
    /\ FilterIdle
    /\ DriverIdle
    /\ BuilderIdle
    /\ StartupIdle
    /\ OperatorsIdle

\* one call of build_refresh_action, whatever the wallet holds
BuildRefresh ==
    /\ r_pc = "call"
    /\ \E wallet \in Wallets, overflow_checks \in BOOLEAN :
          r_result' = build_refresh_action(
                          in_pool_box, in_refresh_box, datapoint_stage,
                          max_deviation_percent, min_data_points, wallet, height,
                          my_oracle_pk, overflow_checks)
    /\ r_pc' = IF r_result'.ok \/ r_result'.err # "panic" THEN "returned" ELSE "panicked"
    /\ UNCHANGED <<in_pool_box, in_refresh_box, datapoint_stage, height>>
    /\ UNCHANGED <<filterVars, driverVars, builderVars, startupVars, operatorsVars>>

Next == BuildRefresh

Spec == Init /\ [][Next]_vars

----------------------------------------------------------------------------
(* Properties of build_refresh_action (Spec).                              *)

\* the call returned a refresh action
Built == r_pc = "returned" /\ r_result.ok

\* the datapoint boxes among the inputs of the transaction, in input order:
\* the retained boxes
Consumed ==
    LET ids == SelectSeq(r_result.val.inputs, LAMBDA id : id \in DOMAIN datapoint_stage)
    IN  [i \in DOMAIN ids |-> datapoint_stage[ids[i]]]

OutPoolBox == r_result.val.output_candidates[1]

\* the output box at the place of the i-th retained box
OutOracleBox(i) == r_result.val.output_candidates[i + 2]

\* C2: the output pool box of a built refresh has the epoch counter of the
\* input pool box plus 1 and its reward tokens less 2 per retained box.
C2_PoolEpochAndReward ==
    Built =>
        /\ OutPoolBox.epoch_counter = in_pool_box.epoch_counter + 1
        /\ OutPoolBox.reward_tokens = in_pool_box.reward_tokens - 2 * Len(Consumed)

\* a refresh was built from at least three retained boxes
C2_Witness ==
    /\ Built
    /\ Len(Consumed) >= 3
    /\ OutPoolBox.reward_tokens < in_pool_box.reward_tokens

\* C3 as stated: the collector's output box holds the input's reward tokens
\* plus |retained| + 2.
C3_CollectorGetsCountPlusTwo ==
    Built =>
        \A i \in DOMAIN Consumed :
            Consumed[i].public_key = my_oracle_pk =>
                OutOracleBox(i).reward_tokens
                    = Consumed[i].reward_tokens + Len(Consumed) + 2

\* C3 amended: the collector's output box holds the input's reward tokens
\* plus |retained| + 1: 1 like every retained box and 1 more per retained box.
C3_CollectorGetsCountPlusOne ==
    Built =>
        \A i \in DOMAIN Consumed :
            Consumed[i].public_key = my_oracle_pk =>
                OutOracleBox(i).reward_tokens
                    = Consumed[i].reward_tokens + Len(Consumed) + 1

\* a refresh was built whose retained boxes are the collector's and others'
C3_Witness ==
    /\ Built
    /\ \E i, j \in DOMAIN Consumed :
          /\ Consumed[i].public_key = my_oracle_pk
          /\ Consumed[j].public_key # my_oracle_pk

\* C4: a retained box of another oracle gets an output box of the same
\* public key, oracle token, value and contract, with one more reward token.
C4_OtherOracleGetsOne ==
    Built =>
        /\ Len(r_result.val.output_candidates) = Len(Consumed) + 2
        /\ \A i \in DOMAIN Consumed :
              Consumed[i].public_key # my_oracle_pk =>
                  /\ OutOracleBox(i).public_key = Consumed[i].public_key
                  /\ OutOracleBox(i).oracle_token = Consumed[i].oracle_token
                  /\ OutOracleBox(i).value = Consumed[i].value
                  /\ OutOracleBox(i).contract = Consumed[i].contract
                  /\ OutOracleBox(i).reward_tokens = Consumed[i].reward_tokens + 1

\* a refresh was built that retains the boxes of two other oracles
C4_Witness ==
    /\ Built
    /\ \E i, j \in DOMAIN Consumed :
          /\ i # j
          /\ Consumed[i].public_key # my_oracle_pk
          /\ Consumed[j].public_key # my_oracle_pk

\* C5: every datapoint box a built refresh consumes was created above
\* height - epoch length and carries the epoch counter of the pool box; a
\* call that is given no box of the pool's epoch counter builds nothing.
C5_ConsumedAreCurrent ==
    /\ Built =>
          \A i \in DOMAIN Consumed :
              /\ Consumed[i].creation_height > height - in_refresh_box.epoch_length
              /\ Consumed[i].epoch_counter = in_pool_box.epoch_counter
    /\ (/\ r_pc # "call"
        /\ \A i \in DOMAIN datapoint_stage :
              datapoint_stage[i].epoch_counter # in_pool_box.epoch_counter)
          => ~r_result.ok

\* a refresh was built although the scan held a lately created box of
\* another epoch counter, which it does not consume
C5_Witness ==
    /\ Built
    /\ \E j \in DOMAIN datapoint_stage :
          /\ datapoint_stage[j].epoch_counter # in_pool_box.epoch_counter
          /\ datapoint_stage[j].creation_height > height - in_refresh_box.epoch_length
          /\ \A i \in DOMAIN Consumed : Consumed[i].box_id # j

\* the boxes left by the filter on height and epoch and by the trimming
Trimmed ==
    filtered_oracle_boxes_by_rate(
        Rates(in_oracle_boxes_of(in_pool_box, in_refresh_box, datapoint_stage, height)),
        max_deviation_percent)

Retained ==
    valid_in_oracle_boxes_of(
        in_oracle_boxes_of(in_pool_box, in_refresh_box, datapoint_stage, height),
        Trimmed.val)

\* the call got as far as the consensus gate
ReachedGate ==
    /\ r_pc # "call"
    /\ ~(r_pc = "panicked" /\ height < in_refresh_box.epoch_length)
    /\ Trimmed.ok

\* C6: with the filter and the trimming done, fewer than min_data_points
\* retained boxes make the call fail with FailedToReachConsensus, which
\* carries min_data_points, the number of retained boxes and their public
\* keys; with min_data_points or more the call does not fail so.
C6_FailedToReachConsensus ==
    ReachedGate =>
        IF Len(Retained) < min_data_points
        THEN /\ ~r_result.ok
             /\ r_result.err = "FailedToReachConsensus"
             /\ r_result.expected = min_data_points
             /\ r_result.found_num = Len(Retained)
             /\ r_result.found_public_keys = PublicKeys(Retained)
        ELSE r_result.ok \/ r_result.err # "FailedToReachConsensus"

\* the call failed to reach consensus with one box retained
C6_Witness ==
    /\ ReachedGate
    /\ ~r_result.ok
    /\ r_result.err = "FailedToReachConsensus"
    /\ r_result.found_num = 1
    /\ Len(datapoint_stage) > 1

\* C10: the rate of the output pool box is the floor of the mean of the
\* retained rates, and lies between the least and the greatest of them.
C10_PoolRateIsFloorOfMean ==
    Built =>
        LET rates == Rates(Consumed)
            n == Len(rates)
        IN  /\ n > 0
            /\ n * OutPoolBox.rate <= SeqSum(rates)
            /\ SeqSum(rates) < n * (OutPoolBox.rate + 1)
            /\ SeqMin(rates) <= OutPoolBox.rate
            /\ OutPoolBox.rate <= SeqMax(rates)

\* a refresh was built whose mean rate is not a whole number
C10_Witness ==
    /\ Built
    /\ SeqSum(Rates(Consumed)) % Len(Consumed) # 0

\* the values that the context extension of the input box_id gives key 0
ContextValues(box_id) ==
    {e.value : e \in {x \in r_result.val.context_extension :
                          x.box_id = box_id /\ x.key = 0}}

\* C11: the outputs of a built refresh are the pool box, the refresh box and
\* one oracle box per retained input, the retained inputs in ascending order
\* of rate; the retained input at position i (from 0) carries the context
\* extension 0 -> i + 2 and the output at index i + 2 is the output box of
\* that input (same public key, same value).
C11_OutputOrderAndOutIndex ==
    Built =>
        LET outs == r_result.val.output_candidates
        IN  /\ Consumed = Retained
            /\ Len(outs) = Len(Retained) + 2
            /\ outs[1].contract = in_pool_box.contract
            /\ outs[1].pool_nft = in_pool_box.pool_nft
            /\ outs[2].contract = in_refresh_box.contract
            /\ outs[2].refresh_nft = in_refresh_box.refresh_nft
            /\ \A i, j \in DOMAIN Retained :
                  i < j => Retained[i].rate <= Retained[j].rate
            /\ \A i \in DOMAIN Retained :
                  /\ ContextValues(Retained[i].box_id) = {(i - 1) + 2}
                  /\ outs[((i - 1) + 2) + 1].public_key = Retained[i].public_key
                  /\ outs[((i - 1) + 2) + 1].value = Retained[i].value

\* a refresh was built from three boxes that the scan lists out of the
\* order of their rates
C11_Witness ==
    /\ Built
    /\ Len(Consumed) >= 3
    /\ \E i, j \in DOMAIN datapoint_stage :
          /\ i < j
          /\ datapoint_stage[i].rate > datapoint_stage[j].rate
          /\ \E k, l \in DOMAIN Consumed :
                Consumed[k].box_id = j /\ Consumed[l].box_id = i /\ k < l

\* C12: the context extension of the refresh box input of a built refresh
\* maps 0 to the position (from 0) among the retained boxes of the first box
\* with the operator's public key.
C12_RefreshBoxContextIsMyIndex ==
    Built =>
        \E i \in DOMAIN Retained :
            /\ Retained[i].public_key = my_oracle_pk
            /\ \A j \in 1..(i - 1) : Retained[j].public_key # my_oracle_pk
            /\ ContextValues(in_refresh_box.box_id) = {i - 1}

\* a refresh was built in which the operator's box is not the first of the
\* retained boxes
C12_Witness ==
    /\ Built
    /\ Len(Consumed) >= 2
    /\ Consumed[1].public_key # my_oracle_pk
    /\ ContextValues(in_refresh_box.box_id) # {0}

\* the operator's public key is among the retained boxes
MyKeyRetained == \E i \in DOMAIN Retained : Retained[i].public_key = my_oracle_pk

\* C13 as stated: a call that reaches quorum without the operator's key
\* among the retained boxes returns MyOracleBoxNoFound.
C13_AlwaysMyOracleBoxNotFound ==
    (/\ ReachedGate
     /\ r_pc = "returned"
     /\ Len(Retained) >= min_data_points
     /\ ~MyKeyRetained)
        => (~r_result.ok /\ r_result.err = "MyOracleBoxNoFound")

\* C13 amended: without the operator's key among the retained boxes the call
\* builds nothing: it fails with MyOracleBoxNoFound unless it has failed
\* before the lookup (no quorum, a pool box short of reward tokens, the
\* wallet's boxes not read or not selected); it fails with MyOracleBoxNoFound
\* only if the key is not retained; a built refresh consumes a box of the
\* operator.
C13_NoRefreshWithoutMyBox ==
    /\ (ReachedGate /\ ~MyKeyRetained) =>
          /\ ~r_result.ok
          /\ \/ r_result.err = "MyOracleBoxNoFound"
             \/ r_result.err \in {"WalletData", "BoxSelectorError"}
             \/ r_result.err = "FailedToReachConsensus"
                    /\ Len(Retained) < min_data_points
             \/ r_pc = "panicked"
                    /\ in_pool_box.reward_tokens - 2 * Len(Retained) < 1
    /\ (r_pc = "returned" /\ ~r_result.ok /\ r_result.err = "MyOracleBoxNoFound") =>
          (ReachedGate /\ ~MyKeyRetained /\ Len(Retained) >= min_data_points)
    /\ Built => \E i \in DOMAIN Consumed : Consumed[i].public_key = my_oracle_pk

\* a call with a quorum of other oracles' boxes failed with MyOracleBoxNoFound
C13_Witness ==
    /\ r_pc = "returned"
    /\ ~r_result.ok
    /\ r_result.err = "MyOracleBoxNoFound"
    /\ Len(Retained) >= 2

\* the output refresh box
OutRefreshBox == r_result.val.output_candidates[2]

\* C26: in a refresh that succeeds the output pool box has the contract, the
\* value and the pool NFT of the input pool box, and the output refresh box
\* has the contract, the refresh NFT and the value of the input refresh box;
\* its creation height is the height of the call.
C26_PoolAndRefreshBoxFrame ==
    Built =>
        /\ OutPoolBox.contract = in_pool_box.contract
        /\ OutPoolBox.value = in_pool_box.value
        /\ OutPoolBox.pool_nft = in_pool_box.pool_nft
        /\ OutPoolBox.pool_nft = 1
        /\ OutRefreshBox
               = [contract |-> in_refresh_box.contract,
                  refresh_nft |-> in_refresh_box.refresh_nft,
                  value |-> in_refresh_box.value,
                  creation_height |-> height]

\* a refresh of a pool box of value 2000, above the creation height of the
\* input refresh box
C26_Witness ==
    /\ Built
    /\ in_pool_box.value = 2000
    /\ height > in_refresh_box.creation_height
    /\ OutRefreshBox.creation_height # in_refresh_box.creation_height

\* C28: the output pool box of a refresh holds the reward tokens of the
\* input pool box less two for each retained box, and at least one, the
\* least amount of a token; when the input holds fewer than that the call
\* that has come to build the output pool box fails and returns no
\* transaction.
C28_NoRewardUnderflow ==
    /\ Built =>
          /\ OutPoolBox.reward_tokens >= 1
          /\ OutPoolBox.reward_tokens
                 = in_pool_box.reward_tokens - 2 * Len(Retained)
    /\ (/\ ReachedGate
        /\ Len(Retained) >= min_data_points
        /\ in_pool_box.reward_tokens - 2 * Len(Retained) < 1)
          => (~r_result.ok /\ r_pc = "panicked")

\* a pool box with six reward tokens and three retained boxes: no reward
\* token would be left, and the call has failed
C28_Witness ==
    /\ ReachedGate
    /\ Len(Retained) = 3
    /\ in_pool_box.reward_tokens = 6
    /\ ~r_result.ok
    /\ r_pc = "panicked"

----------------------------------------------------------------------------
(* The pool state classifier (oracle_state.rs), the command planner        *)
(* (state::process) and the action builders behind build_action.           *)

\* a scan of the node: whether the node answers, and the unspent boxes the
\* scan matches, in the node's order
ScanOf(node_ok, box) ==
    [node_ok |-> node_ok, boxes |-> IF box.present THEN <<box>> ELSE <<>>]

\* Scan::get_box: the first box the scan matches, or an error
Scan_get_box(scan) ==
    IF ~scan.node_ok THEN Err("NodeError")
    ELSE IF scan.boxes = <<>> THEN Err("NoBoxesFound")
    ELSE Ok(Head(scan.boxes))

\* PoolBoxWrapper::new, OracleBoxWrapper::new: the validation of a raw box
PoolBoxWrapper_new(b) == IF b.well_formed THEN Ok(b) ELSE Err("PoolBoxError")

OracleBoxWrapper_new(b) == IF b.well_formed THEN Ok(b) ELSE Err("OracleBoxError")

\* impl PoolBoxSource for PoolBoxScan
get_pool_box(pool_box_scan) ==
    LET b == Scan_get_box(pool_box_scan)
    IN  IF ~b.ok THEN b ELSE PoolBoxWrapper_new(b.val)

\* impl LocalDatapointBoxSource for LocalOracleDatapointScan
get_local_oracle_datapoint_box(scan) ==
    LET b == Scan_get_box(scan)
    IN  IF ~b.ok THEN b ELSE OracleBoxWrapper_new(b.val)

\* OraclePool::get_datapoint_state; the argument is the Option of the scan
get_datapoint_state(local_oracle_datapoint_scan) ==
    IF local_oracle_datapoint_scan.some
    THEN LET datapoint_box ==
                 get_local_oracle_datapoint_box(local_oracle_datapoint_scan.val)
         IN  IF ~datapoint_box.ok THEN datapoint_box
             ELSE Ok(Some([datapoint |-> datapoint_box.val.rate,
                           origin_epoch_id |-> datapoint_box.val.epoch_counter,
                           creation_height |-> datapoint_box.val.creation_height]))
    ELSE Ok(None)

\* a classifier that takes any local datapoint for one of this epoch
get_live_epoch_state_any_datapoint(pool_box_scan, local_oracle_datapoint_scan, epoch_length) ==
    LET pool_box == get_pool_box(pool_box_scan)
        datapoint_state == get_datapoint_state(local_oracle_datapoint_scan)
    IN  IF ~pool_box.ok THEN pool_box
        ELSE IF ~datapoint_state.ok THEN datapoint_state
        ELSE Ok([epoch_id |-> pool_box.val.epoch_counter,
                 commit_datapoint_in_epoch |-> datapoint_state.val.some,
                 epoch_ends |-> pool_box.val.creation_height + epoch_length,
                 latest_pool_datapoint |-> pool_box.val.rate])

\* OraclePool::get_live_epoch_state
get_live_epoch_state(pool_box_scan, local_oracle_datapoint_scan, epoch_length) ==
    LET pool_box == get_pool_box(pool_box_scan)
        datapoint_state == get_datapoint_state(local_oracle_datapoint_scan)
    IN  IF ~pool_box.ok THEN pool_box
        ELSE IF ~datapoint_state.ok THEN datapoint_state
        ELSE Ok([epoch_id |-> pool_box.val.epoch_counter,
                 commit_datapoint_in_epoch |->
                     IF datapoint_state.val.some
                     THEN pool_box.val.epoch_counter
                              = datapoint_state.val.val.origin_epoch_id
                     ELSE FALSE,
                 epoch_ends |-> pool_box.val.creation_height + epoch_length,
                 latest_pool_datapoint |-> pool_box.val.rate])

\* PoolState
NeedsBootstrap == [kind |-> "NeedsBootstrap"]

LiveEpoch(s) == [kind |-> "LiveEpoch", state |-> s]

\* main_loop_iteration, lines 343-349
pool_state_of(live_epoch_state) ==
    IF live_epoch_state.ok THEN LiveEpoch(live_epoch_state.val) ELSE NeedsBootstrap

\* state::process, the command planner
process(state, epoch_length, current_height) ==
    IF state.kind = "NeedsBootstrap" THEN Some("Bootstrap")
    ELSE IF current_height >= state.state.epoch_ends THEN Some("Refresh")
    ELSE IF ~state.state.commit_datapoint_in_epoch THEN Some("PublishDataPoint")
    ELSE None

\* a call of the planner with the height and the epoch length swapped
planned_command_swapped(state, epoch_length, current_height) ==
    process(state, current_height, epoch_length)

\* a call of the planner with the height of the block before
planned_command_late(state, epoch_length, current_height) ==
    process(state, epoch_length, current_height - 1)

\* main_loop_iteration, line 355: the call of the planner
planned_command(state, epoch_length, current_height) ==
    process(state, epoch_length, current_height)

\* box_kind::make_oracle_box_candidate
make_oracle_box_candidate(contract, public_key, datapoint, epoch_counter, oracle_token, reward_token, value, creation_height) ==
    [contract |-> contract, public_key |-> public_key, rate |-> datapoint,
     epoch_counter |-> epoch_counter, oracle_token |-> oracle_token,
     reward_tokens |-> reward_token, value |-> value,
     creation_height |-> creation_height]

\* what DataPointSource::get_datapoint may return
FeedRate == 100

Feeds == {Ok(FeedRate), Err("DataPointSource")}

\* the id of the wallet box that pays the fee
WalletBoxId == -3

\* the value a first datapoint box is given (OracleContractParameters)
min_storage_rent == 1000

\* the fee of a transaction, and the least value of a box that a user makes
BASE_FEE == 100

SAFE_USER_MIN == 100

\* the wallets of the calls that take tokens from the wallet: those of
\* Wallets, and wallets that are short of a token or of the storage rent
TokenWallets ==
    Wallets \cup {"many_reward_tokens", "no_oracle_token", "no_reward_token",
                  "no_storage_rent"}

\* what get_unspent_wallet_boxes returns: the coins and the tokens of the
\* unspent boxes of the wallet
WalletContents(wallet) ==
    [nanoergs |-> IF wallet = "unfunded" THEN 0
                  ELSE IF wallet = "no_storage_rent"
                       THEN min_storage_rent + BASE_FEE - 1
                       ELSE 10 * min_storage_rent,
     oracle_tokens |-> IF wallet = "no_oracle_token" THEN 0 ELSE 1,
     reward_tokens |-> IF wallet = "no_reward_token" THEN 0
                       ELSE IF wallet = "many_reward_tokens" THEN 5 ELSE 1]

\* SimpleBoxSelector::select: boxes of the wallet that hold the target
\* balance and the target tokens; what is above the targets is change
box_selector_select(wallet, target_balance, oracle_tokens, reward_tokens) ==
    LET unspent_boxes == WalletContents(wallet)
    IN  IF unspent_boxes.nanoergs < target_balance THEN Err("BoxSelector")
        ELSE IF \/ unspent_boxes.oracle_tokens < oracle_tokens
                \/ unspent_boxes.reward_tokens < reward_tokens
        THEN Err("BoxSelector")
        ELSE Ok([boxes |-> <<WalletBoxId>>,
                 change |-> [nanoergs |-> unspent_boxes.nanoergs - target_balance,
                             oracle_tokens |->
                                 unspent_boxes.oracle_tokens - oracle_tokens,
                             reward_tokens |->
                                 unspent_boxes.reward_tokens - reward_tokens]])

\* a subsequent publish that leaves the epoch counter of the box as it is
build_subsequent_publish_datapoint_action_stale(local_datapoint_box, wallet, h, datapoint_source, new_epoch_counter) ==
    IF ~datapoint_source.ok THEN datapoint_source
    ELSE IF local_datapoint_box.reward_tokens = 0 THEN Err("NoRewardTokenInOracleBox")
    ELSE IF wallet = "unreachable" THEN Err("WalletData")
    ELSE IF wallet = "unfunded" THEN Err("BoxSelector")
    ELSE Ok([inputs |-> <<local_datapoint_box.box_id, WalletBoxId>>,
             output_candidates |->
                 <<make_oracle_box_candidate(
                       local_datapoint_box.contract, local_datapoint_box.public_key,
                       datapoint_source.val, local_datapoint_box.epoch_counter,
                       local_datapoint_box.oracle_token,
                       local_datapoint_box.reward_tokens,
                       local_datapoint_box.value, h)>>,
             creation_height |-> h,
             context_extension |->
                 {[box_id |-> local_datapoint_box.box_id, key |-> 0, value |-> 0]}])

\* fn build_subsequent_publish_datapoint_action
build_subsequent_publish_datapoint_action(local_datapoint_box, wallet, h, datapoint_source, new_epoch_counter) ==
    IF ~datapoint_source.ok THEN datapoint_source
    ELSE IF local_datapoint_box.reward_tokens = 0 THEN Err("NoRewardTokenInOracleBox")
    ELSE IF wallet = "unreachable" THEN Err("WalletData")
    ELSE IF wallet = "unfunded" THEN Err("BoxSelector")
    ELSE Ok([inputs |-> <<local_datapoint_box.box_id, WalletBoxId>>,
             output_candidates |->
                 <<make_oracle_box_candidate(
                       local_datapoint_box.contract, local_datapoint_box.public_key,
                       datapoint_source.val, new_epoch_counter,
                       local_datapoint_box.oracle_token,
                       local_datapoint_box.reward_tokens,
                       local_datapoint_box.value, h)>>,
             creation_height |-> h,
             context_extension |->
                 {[box_id |-> local_datapoint_box.box_id, key |-> 0, value |-> 0]}])

\* a first publish that puts every reward token of the wallet in the box
build_publish_first_datapoint_action_all_rewards(wallet, h, public_key, datapoint_source) ==
    IF ~datapoint_source.ok THEN datapoint_source
    ELSE IF wallet = "unreachable" THEN Err("WalletData")
    ELSE LET wallet_boxes_selection ==
                 box_selector_select(wallet, min_storage_rent + BASE_FEE, 1, 1)
         IN  IF ~wallet_boxes_selection.ok THEN wallet_boxes_selection
             ELSE Ok([inputs |-> wallet_boxes_selection.val.boxes,
                      output_candidates |->
                          <<make_oracle_box_candidate(
                                "oracle", public_key, datapoint_source.val, 1, 1,
                                WalletContents(wallet).reward_tokens,
                                min_storage_rent, h)>>,
                      creation_height |-> h,
                      context_extension |->
                          {[box_id |-> Head(wallet_boxes_selection.val.boxes),
                            key |-> 0, value |-> 0]}])

\* fn build_publish_first_datapoint_action
build_publish_first_datapoint_action(wallet, h, public_key, datapoint_source) ==
    IF ~datapoint_source.ok THEN datapoint_source
    ELSE IF wallet = "unreachable" THEN Err("WalletData")
    ELSE LET oracle_token == 1
             reward_token == 1
             target_balance == min_storage_rent + BASE_FEE
             wallet_boxes_selection ==
                 box_selector_select(wallet, target_balance, oracle_token, reward_token)
         IN  IF ~wallet_boxes_selection.ok THEN wallet_boxes_selection
             ELSE Ok([inputs |-> wallet_boxes_selection.val.boxes,
                      output_candidates |->
                          <<make_oracle_box_candidate(
                                "oracle", public_key, datapoint_source.val, 1,
                                oracle_token, reward_token, min_storage_rent, h)>>,
                      creation_height |-> h,
                      context_extension |->
                          {[box_id |-> Head(wallet_boxes_selection.val.boxes),
                            key |-> 0, value |-> 0]}])

\* Address: P2Pk with its public key, or a script address
P2Pk(h) == [kind |-> "P2Pk", h |-> h]

P2S == [kind |-> "P2S"]

\* a transfer that checks the destination before the reward tokens
build_transfer_oracle_token_action_address_first(local_datapoint_box_source, wallet, oracle_token_destination, h) ==
    LET in_oracle_box == get_local_oracle_datapoint_box(local_datapoint_box_source)
    IN  IF ~in_oracle_box.ok THEN Err("StageError")
        ELSE IF oracle_token_destination.kind # "P2Pk"
        THEN Err("IncorrectDestinationAddress")
        ELSE IF in_oracle_box.val.reward_tokens # 1
        THEN [ok |-> FALSE, err |-> "IncorrectNumberOfRewardTokensInOracleBox",
              num_reward_tokens |-> in_oracle_box.val.reward_tokens]
        ELSE IF wallet = "unreachable" THEN Err("Node")
        ELSE LET selection == box_selector_select(wallet, SAFE_USER_MIN, 0, 0)
             IN  IF ~selection.ok THEN selection
                 ELSE Ok([inputs |-> <<in_oracle_box.val.box_id>> \o selection.val.boxes,
                          output_candidates |->
                              <<[contract |-> in_oracle_box.val.contract,
                                 public_key |-> oracle_token_destination.h,
                                 epoch_counter |-> in_oracle_box.val.epoch_counter,
                                 rate |-> in_oracle_box.val.rate,
                                 oracle_token |-> in_oracle_box.val.oracle_token,
                                 reward_tokens |-> 1,
                                 value |-> in_oracle_box.val.value,
                                 creation_height |-> h]>>,
                          creation_height |-> h,
                          context_extension |->
                              {[box_id |-> in_oracle_box.val.box_id, key |-> 0,
                                value |-> 0]}])

\* a transfer that leaves the public key of the box as it is
build_transfer_oracle_token_action_same_key(local_datapoint_box_source, wallet, oracle_token_destination, h) ==
    LET in_oracle_box == get_local_oracle_datapoint_box(local_datapoint_box_source)
    IN  IF ~in_oracle_box.ok THEN Err("StageError")
        ELSE IF in_oracle_box.val.reward_tokens # 1
        THEN [ok |-> FALSE, err |-> "IncorrectNumberOfRewardTokensInOracleBox",
              num_reward_tokens |-> in_oracle_box.val.reward_tokens]
        ELSE IF oracle_token_destination.kind # "P2Pk"
        THEN Err("IncorrectDestinationAddress")
        ELSE IF wallet = "unreachable" THEN Err("Node")
        ELSE LET selection == box_selector_select(wallet, SAFE_USER_MIN, 0, 0)
             IN  IF ~selection.ok THEN selection
                 ELSE Ok([inputs |-> <<in_oracle_box.val.box_id>> \o selection.val.boxes,
                          output_candidates |->
                              <<[contract |-> in_oracle_box.val.contract,
                                 public_key |-> in_oracle_box.val.public_key,
                                 epoch_counter |-> in_oracle_box.val.epoch_counter,
                                 rate |-> in_oracle_box.val.rate,
                                 oracle_token |-> in_oracle_box.val.oracle_token,
                                 reward_tokens |-> 1,
                                 value |-> in_oracle_box.val.value,
                                 creation_height |-> h]>>,
                          creation_height |-> h,
                          context_extension |->
                              {[box_id |-> in_oracle_box.val.box_id, key |-> 0,
                                value |-> 0]}])

\* fn build_transfer_oracle_token_action
build_transfer_oracle_token_action(local_datapoint_box_source, wallet, oracle_token_destination, h) ==
    LET in_oracle_box == get_local_oracle_datapoint_box(local_datapoint_box_source)
    IN  IF ~in_oracle_box.ok THEN Err("StageError")
        ELSE IF in_oracle_box.val.reward_tokens # 1
        THEN [ok |-> FALSE, err |-> "IncorrectNumberOfRewardTokensInOracleBox",
              num_reward_tokens |-> in_oracle_box.val.reward_tokens]
        ELSE IF oracle_token_destination.kind # "P2Pk"
        THEN Err("IncorrectDestinationAddress")
        ELSE IF wallet = "unreachable" THEN Err("Node")
        ELSE LET target_balance == SAFE_USER_MIN
                 selection == box_selector_select(wallet, target_balance, 0, 0)
             IN  IF ~selection.ok THEN selection
                 ELSE Ok([inputs |-> <<in_oracle_box.val.box_id>> \o selection.val.boxes,
                          output_candidates |->
                              <<[contract |-> in_oracle_box.val.contract,
                                 public_key |-> oracle_token_destination.h,
                                 epoch_counter |-> in_oracle_box.val.epoch_counter,
                                 rate |-> in_oracle_box.val.rate,
                                 oracle_token |-> in_oracle_box.val.oracle_token,
                                 reward_tokens |-> 1,
                                 value |-> in_oracle_box.val.value,
                                 creation_height |-> h]>>,
                          creation_height |-> h,
                          context_extension |->
                              {[box_id |-> in_oracle_box.val.box_id, key |-> 0,
                                value |-> 0]}])

\* impl DatapointBoxesSource for DatapointStage: every box of the scan is
\* wrapped, and the wrapper's error unwrapped
get_oracle_datapoint_boxes(stage_scan) ==
    IF ~stage_scan.node_ok THEN Err("NodeError")
    ELSE IF \E i \in DOMAIN stage_scan.boxes : ~OracleBoxWrapper_new(stage_scan.boxes[i]).ok
    THEN Panic("unwrap: OracleBoxError")
    ELSE Ok(stage_scan.boxes)

\* PoolCommandError: the error of a builder, under the variant of its command
PoolCommandError(variant, e) ==
    IF e.err = "panic" THEN e
    ELSE [ok |-> FALSE, err |-> variant, cause |-> e.err]

\* PoolAction
PoolAction(kind, tx) == [kind |-> kind, tx |-> tx]

\* build_action, PoolCommand::Refresh: the sources read (refresh.rs, lines
\* 74-79), then the action built
build_action_refresh(pool_box_scan, stage_scan, wallet, h, overflow_checks) ==
    LET pool_box == get_pool_box(pool_box_scan)
        boxes == get_oracle_datapoint_boxes(stage_scan)
    IN  IF ~pool_box.ok THEN PoolCommandError("RefreshActionError", Err("StageError"))
        ELSE IF ~boxes.ok THEN PoolCommandError("RefreshActionError", boxes)
        ELSE LET r == build_refresh_action(
                          pool_box.val, RefreshBox, boxes.val, max_deviation_percent,
                          min_data_points, wallet, h, my_oracle_pk, overflow_checks)
             IN  IF r.ok THEN Ok(PoolAction("Refresh", r.val))
                 ELSE PoolCommandError("RefreshActionError", r)

\* build_action, PoolCommand::PublishDataPoint
build_action_publish(pool_box_scan, local_oracle_datapoint_scan, wallet, h, datapoint_source) ==
    LET r == IF local_oracle_datapoint_scan.some
             THEN LET pool_box == get_pool_box(pool_box_scan)
                      local_box == get_local_oracle_datapoint_box(
                                       local_oracle_datapoint_scan.val)
                  IN  IF ~pool_box.ok \/ ~local_box.ok THEN Err("StageError")
                      ELSE build_subsequent_publish_datapoint_action(
                               local_box.val, wallet, h, datapoint_source,
                               pool_box.val.epoch_counter)
             ELSE build_publish_first_datapoint_action(
                      wallet, h, my_oracle_pk, datapoint_source)
    IN  IF r.ok THEN Ok(PoolAction("PublishDataPoint", r.val))
        ELSE PoolCommandError("PublishDatapointActionError", r)

\* fn build_action
build_action(command, pool_box_scan, stage_scan, local_oracle_datapoint_scan, wallet, h, datapoint_source, overflow_checks) ==
    IF command = "Bootstrap" THEN Panic("not yet implemented")
    ELSE IF command = "Refresh"
    THEN build_action_refresh(pool_box_scan, stage_scan, wallet, h, overflow_checks)
    ELSE build_action_publish(pool_box_scan, local_oracle_datapoint_scan, wallet, h,
                              datapoint_source)

\* a filter that also lets NotEnoughDatapoints pass as harmless
log_and_continue_if_non_fatal_lenient(res) ==
    IF res.ok THEN Ok(Some(res.val))
    ELSE IF res.err = "RefreshActionError"
            /\ res.cause \in {"FailedToReachConsensus", "NotEnoughDatapoints"}
    THEN Ok(None)
    ELSE IF res.err = "PublishDatapointActionError" /\ res.cause = "DataPointSource"
    THEN Ok(None)
    ELSE res

\* fn log_and_continue_if_non_fatal
log_and_continue_if_non_fatal(res) ==
    IF res.ok THEN Ok(Some(res.val))
    ELSE IF res.err = "RefreshActionError" /\ res.cause = "FailedToReachConsensus"
    THEN Ok(None)
    ELSE IF res.err = "PublishDatapointActionError" /\ res.cause = "DataPointSource"
    THEN Ok(None)
    ELSE res

----------------------------------------------------------------------------
(* DriverSpec: the loop of Command::Run, one step of main_loop_iteration   *)
(* per action, with the chain moving in between.                           *)

\* the iterations of the loop and the blocks that are modelled
MaxTicks == 2

MaxBlocks == 2

\* the pool box on the chain when the loop starts
DriverPoolBox(epoch, well_formed) ==
    [present |-> TRUE, well_formed |-> well_formed, box_id |-> 100,
     contract |-> "pool", pool_nft |-> 1, rate |-> 100, epoch_counter |-> epoch,
     reward_tokens |-> 100, value |-> 1000, creation_height |-> 0]

\* a datapoint box on the chain
DatapointBox(id, pk, epoch, created, rate, well_formed) ==
    [present |-> TRUE, well_formed |-> well_formed, box_id |-> id,
     contract |-> "oracle", public_key |-> pk, oracle_token |-> 1,
     reward_tokens |-> 1, epoch_counter |-> epoch, creation_height |-> created,
     rate |-> rate, value |-> min_storage_rent]

\* the datapoint boxes of the other oracles that the scan may hold at
\* height h in epoch e: none, one, two of one rate, two of far rates, a box
\* that is not an oracle box
OtherDatapointBoxes(e, h) ==
    LET one == DatapointBox(1, 1, e, h, 100, TRUE)
    IN  {<<>>, <<one>>,
         <<one, DatapointBox(2, 2, e, h, 100, TRUE)>>,
         <<one, DatapointBox(2, 2, e, h, 200, TRUE)>>,
         <<DatapointBox(1, 1, e, h, 100, FALSE)>>}

\* Option<LocalOracleDatapointScan> of the OraclePool, with what the scan
\* matches now
LocalScan(node_ok) ==
    IF local_scan_registered THEN Some(ScanOf(node_ok, chain_local_box)) ELSE None

\* the all-datapoints scan now: the operator's box and the others'
StageScan(node_ok, others) ==
    [node_ok |-> node_ok,
     boxes |-> (IF chain_local_box.present THEN <<chain_local_box>> ELSE <<>>) \o others]

DriverInit ==
    /\ local_scan_registered \in BOOLEAN
    /\ read_only \in BOOLEAN
    /\ chain_height \in {EpochLength - 1, EpochLength}
    /\ chain_pool_box \in {NoBox, DriverPoolBox(2, FALSE), DriverPoolBox(1, TRUE),
                           DriverPoolBox(2, TRUE)}
    /\ chain_local_box \in {NoBox}
          \cup {DatapointBox(10, my_oracle_pk, e, EpochLength - 1, FeedRate, TRUE) :
                    e \in 1..2}
    \* a datapoint box carries an epoch counter that its builder read from the
    \* pool box (publish_datapoint.rs, lines 55 and 68), which never decreases
    /\ (chain_local_box.present /\ chain_pool_box.present) =>
           chain_local_box.epoch_counter <= chain_pool_box.epoch_counter
    /\ mempool = <<>>
    /\ submitted = <<>>
    /\ d_pc = "sleep"
    /\ tick_height = 0
    /\ pool_state = None
    /\ cmd = None
    /\ build_action_res = NoResult
    /\ action = None
    /\ tick_result = NoResult
    /\ ticks = 0
    /\ refreshes = <<>>
    /\ FilterIdle
    /\ RefreshIdle
    /\ BuilderIdle
    /\ StartupIdle
    /\ OperatorsIdle

\* lines 247-248 and 339-342: an iteration begins and reads the height and
\* the change address from the node
TickBegin ==
    /\ d_pc = "sleep"
    /\ ticks < MaxTicks
    /\ ticks' = ticks + 1
    /\ tick_height' = chain_height
    /\ d_pc' = "classify"
    /\ pool_state' = None
    /\ cmd' = None
    /\ build_action_res' = NoResult
    /\ action' = None
    /\ tick_result' = NoResult
    /\ UNCHANGED <<local_scan_registered, read_only, chain_height, chain_pool_box, chain_local_box, mempool, submitted, refreshes>>
    /\ UNCHANGED <<filterVars, refreshVars, builderVars, startupVars, operatorsVars>>

\* lines 340 and 342: the node does not answer; `?` ends the iteration, line
\* 249 logs the error, the loop sleeps
TickNodeError ==
    /\ d_pc = "sleep"
    /\ ticks < MaxTicks
    /\ ticks' = ticks + 1
    /\ \E e \in {"Failed to get the current height", "failed to get wallet's change address"} :
          tick_result' = Err(e)
    /\ pool_state' = None
    /\ cmd' = None
    /\ build_action_res' = NoResult
    /\ action' = None
    /\ UNCHANGED <<local_scan_registered, read_only, chain_height, chain_pool_box, chain_local_box, mempool, submitted, d_pc, tick_height, refreshes>>
    /\ UNCHANGED <<filterVars, refreshVars, builderVars, startupVars, operatorsVars>>

\* lines 343-355: the classifier and the planner; without a command the
\* iteration ends with Ok(())
Classify ==
    /\ d_pc = "classify"
    /\ \E pool_node_ok \in BOOLEAN, local_node_ok \in BOOLEAN :
          pool_state' = Some(pool_state_of(get_live_epoch_state(
                                 ScanOf(pool_node_ok, chain_pool_box),
                                 LocalScan(local_node_ok), EpochLength)))
    /\ cmd' = planned_command(pool_state'.val, EpochLength, tick_height)
    /\ IF cmd'.some
       THEN d_pc' = "build" /\ UNCHANGED tick_result
       ELSE d_pc' = "sleep" /\ tick_result' = Ok("unit")
    /\ UNCHANGED <<local_scan_registered, read_only, chain_height, chain_pool_box, chain_local_box, mempool, submitted, tick_height, build_action_res, action, ticks, refreshes>>
    /\ UNCHANGED <<filterVars, refreshVars, builderVars, startupVars, operatorsVars>>

\* an iteration that executes its action in read-only mode too
AfterBuild_ignores_read_only(res) ==
    /\ build_action_res' = res
    /\ IF ~res.ok /\ res.err = "panic"
       THEN d_pc' = "stopped" /\ tick_result' = res /\ UNCHANGED action
       ELSE LET filtered == log_and_continue_if_non_fatal(res)
            IN  IF ~filtered.ok
                THEN d_pc' = "sleep" /\ tick_result' = filtered /\ UNCHANGED action
                ELSE /\ action' = filtered.val
                     /\ IF filtered.val.some
                        THEN d_pc' = "execute" /\ UNCHANGED tick_result
                        ELSE d_pc' = "sleep" /\ tick_result' = Ok("unit")

\* what lines 357-366 make of the result of build_action
AfterBuild(res) ==
    /\ build_action_res' = res
    /\ IF ~res.ok /\ res.err = "panic"
       THEN d_pc' = "stopped" /\ tick_result' = res /\ UNCHANGED action
       ELSE LET filtered == log_and_continue_if_non_fatal(res)
            IN  IF ~filtered.ok
                THEN d_pc' = "sleep" /\ tick_result' = filtered /\ UNCHANGED action
                ELSE /\ action' = filtered.val
                     /\ IF filtered.val.some /\ ~read_only
                        THEN d_pc' = "execute" /\ UNCHANGED tick_result
                        ELSE d_pc' = "sleep" /\ tick_result' = Ok("unit")

\* lines 356-366: build_action and log_and_continue_if_non_fatal.  What the
\* command does not read is not varied: only a refresh reads the datapoint
\* boxes of the others and subtracts the epoch length from the height, only a
\* publish asks the feed.
Build ==
    /\ d_pc = "build"
    /\ \E node_ok \in BOOLEAN, wallet \in Wallets,
          datapoint_source \in IF cmd.val = "PublishDataPoint"
                               THEN Feeds ELSE {Ok(FeedRate)},
          overflow_checks \in IF cmd.val = "Refresh" THEN BOOLEAN ELSE {FALSE},
          others \in IF cmd.val = "Refresh"
                     THEN OtherDatapointBoxes(
                              IF chain_pool_box.present
                              THEN chain_pool_box.epoch_counter ELSE 1,
                              chain_height)
                     ELSE {<<>>} :
          AfterBuild(build_action(
              cmd.val, ScanOf(node_ok, chain_pool_box), StageScan(node_ok, others),
              LocalScan(node_ok), wallet, tick_height, datapoint_source,
              overflow_checks))
    /\ UNCHANGED <<local_scan_registered, read_only, chain_height, chain_pool_box, chain_local_box, mempool, submitted, tick_height, pool_state, cmd, ticks, refreshes>>
    /\ UNCHANGED <<filterVars, refreshVars, builderVars, startupVars, operatorsVars>>

\* the node's check of a transaction it is handed: the pool box and the
\* operator's datapoint box among its inputs are unspent
Spendable(chain, a) ==
    LET spends_local == \E i \in DOMAIN a.tx.inputs :
                            a.tx.inputs[i] >= 10 /\ a.tx.inputs[i] < 100
        local_unspent == /\ chain.local.present
                         /\ \E i \in DOMAIN a.tx.inputs :
                               a.tx.inputs[i] = chain.local.box_id
    IN  /\ spends_local => local_unspent
        /\ a.kind = "Refresh" =>
              (chain.pool.present /\ a.tx.inputs[1] = chain.pool.box_id)

\* an iteration that hands its action to execute_action twice
Execute_twice ==
    /\ d_pc = "execute"
    /\ LET sent == [kind |-> action.val.kind, tx |-> action.val.tx,
                    tick |-> ticks, accepted |-> FALSE,
                    epoch_id |-> 0, chain_epoch |-> 0]
       IN  submitted' = Append(Append(submitted, sent), sent)
    /\ tick_result' = Err("execute_action")
    /\ d_pc' = "sleep"
    /\ UNCHANGED <<local_scan_registered, read_only, chain_height, chain_pool_box, chain_local_box, mempool, tick_height, pool_state, cmd, build_action_res, action, ticks, refreshes>>
    /\ UNCHANGED <<filterVars, refreshVars, builderVars, startupVars, operatorsVars>>

\* lines 367-372: execute_action signs the transaction and hands it to the
\* node, which takes it or not, and does not take it if an input is spent
Execute ==
    /\ d_pc = "execute"
    /\ \E accepted \in IF Spendable([pool |-> chain_pool_box, local |-> chain_local_box],
                                    action.val)
                       THEN BOOLEAN ELSE {FALSE} :
          /\ submitted' = Append(submitted,
                                 [kind |-> action.val.kind, tx |-> action.val.tx,
                                  tick |-> ticks, accepted |-> accepted,
                                  epoch_id |-> IF pool_state.val.kind = "LiveEpoch"
                                               THEN pool_state.val.state.epoch_id
                                               ELSE 0,
                                  chain_epoch |-> IF chain_pool_box.present
                                                  THEN chain_pool_box.epoch_counter
                                                  ELSE 0])
          /\ IF accepted
             THEN mempool' = Append(mempool, action.val) /\ tick_result' = Ok("unit")
             ELSE UNCHANGED mempool /\ tick_result' = Err("execute_action")
    /\ d_pc' = "sleep"
    /\ UNCHANGED <<local_scan_registered, read_only, chain_height, chain_pool_box, chain_local_box, tick_height, pool_state, cmd, build_action_res, action, ticks, refreshes>>
    /\ UNCHANGED <<filterVars, refreshVars, builderVars, startupVars, operatorsVars>>

\* the chain after a transaction of the mempool: a transaction whose input
\* pool box or datapoint box is spent already is dropped; a publish leaves
\* its output as the operator's datapoint box; a refresh leaves its output
\* pool box and, of the operator's box, the collected box (which keeps no
\* rate and no epoch counter of its own: the input's are kept here, below
\* the new pool box's)
ApplyTx(chain, a) ==
    LET spends_local == \E i \in DOMAIN a.tx.inputs :
                            a.tx.inputs[i] >= 10 /\ a.tx.inputs[i] < 100
        next_local_id == IF chain.local.present THEN chain.local.box_id + 1 ELSE 10
    IN  IF ~Spendable(chain, a) THEN chain
        ELSE IF a.kind = "PublishDataPoint"
        THEN [chain EXCEPT !.local =
                  [present |-> TRUE, well_formed |-> TRUE, box_id |-> next_local_id]
                      @@ a.tx.output_candidates[1]]
        ELSE [pool |-> [present |-> TRUE, well_formed |-> TRUE,
                        box_id |-> chain.pool.box_id + 1]
                           @@ a.tx.output_candidates[1],
              local |-> IF spends_local
                        THEN [chain.local EXCEPT
                                  !.box_id = next_local_id,
                                  !.creation_height = a.tx.creation_height,
                                  !.reward_tokens =
                                      a.tx.output_candidates[
                                          2 + CHOOSE i \in 1..Len(a.tx.inputs) :
                                                  a.tx.inputs[i + 2] = chain.local.box_id
                                      ].reward_tokens]
                        ELSE chain.local,
              log |-> Append(chain.log,
                             [by |-> "self", spent |-> chain.pool.box_id,
                              epoch_before |-> chain.pool.epoch_counter,
                              epoch_after |-> a.tx.output_candidates[1].epoch_counter,
                              created_before |-> chain.pool.creation_height,
                              created_after |-> a.tx.output_candidates[1].creation_height])]

RECURSIVE ApplyAll(_, _)
ApplyAll(chain, txs) ==
    IF txs = <<>> THEN chain ELSE ApplyAll(ApplyTx(chain, Head(txs)), Tail(txs))

\* the refresh transaction of another node of the pool in the block of height
\* h, if the pool box allows one: the epoch of the pool box is over.  It
\* collects min_data_points datapoint boxes of other oracles.
OtherNodeRefresh(chain, h) ==
    IF /\ chain.pool.present
       /\ chain.pool.well_formed
       /\ h >= chain.pool.creation_height + EpochLength
       /\ chain.pool.reward_tokens > 2 * min_data_points
    THEN [chain EXCEPT
              !.pool = [@ EXCEPT !.box_id = @ + 1,
                                 !.epoch_counter = @ + 1,
                                 !.creation_height = h,
                                 !.reward_tokens = @ - 2 * min_data_points],
              !.log = Append(@, [by |-> "other", spent |-> chain.pool.box_id,
                                 epoch_before |-> chain.pool.epoch_counter,
                                 epoch_after |-> chain.pool.epoch_counter + 1,
                                 created_before |-> chain.pool.creation_height,
                                 created_after |-> h])]
    ELSE chain

\* the chain grows by a block that holds the transactions of the mempool,
\* after the refresh of another node if there is one
NewBlock ==
    /\ d_pc \in {"sleep", "classify", "build", "execute"}
    /\ chain_height < EpochLength + MaxBlocks
    /\ chain_height' = chain_height + 1
    /\ \E other_refresh \in BOOLEAN :
          LET now == [pool |-> chain_pool_box, local |-> chain_local_box,
                      log |-> refreshes]
              chain == ApplyAll(IF other_refresh
                                THEN OtherNodeRefresh(now, chain_height + 1)
                                ELSE now,
                                mempool)
          IN  /\ chain_pool_box' = chain.pool
              /\ chain_local_box' = chain.local
              /\ refreshes' = chain.log
    /\ mempool' = <<>>
    /\ UNCHANGED <<local_scan_registered, read_only, submitted, d_pc, tick_height, pool_state, cmd, build_action_res, action, tick_result, ticks>>
    /\ UNCHANGED <<filterVars, refreshVars, builderVars, startupVars, operatorsVars>>

DriverNext ==
    \/ TickBegin
    \/ TickNodeError
    \/ Classify
    \/ Build
    \/ Execute
    \/ NewBlock

\* the loop never ends of itself (line 247) and the chain is not bound to
\* grow: an enabled step of the loop is taken in the end
DriverFairness == WF_vars(TickBegin \/ TickNodeError \/ Classify \/ Build \/ Execute)

DriverSpec == DriverInit /\ [][DriverNext]_vars

DriverLiveSpec == DriverInit /\ [][DriverNext]_vars /\ DriverFairness

----------------------------------------------------------------------------
(* Properties of the classifier, the planner and the loop (DriverSpec).    *)

\* the iteration has classified the pool as live
Live == pool_state.some /\ pool_state.val.kind = "LiveEpoch"

LiveState == pool_state.val.state

\* C14: for a LiveEpoch state with the height at or above epoch_ends the
\* planner's command is Refresh, whether the datapoint of this epoch is
\* committed or not.
C14_RefreshAtEpochEnd ==
    (Live /\ tick_height >= LiveState.epoch_ends) => cmd = Some("Refresh")

\* the epoch is over, the operator's datapoint is not committed, and the
\* plan is Refresh
C14_Witness ==
    /\ Live
    /\ tick_height >= LiveState.epoch_ends
    /\ ~LiveState.commit_datapoint_in_epoch
    /\ cmd = Some("Refresh")
    /\ d_pc = "build"

\* C15: for a LiveEpoch state with the height below epoch_ends the planner's
\* command is PublishDataPoint if the datapoint of this epoch is not
\* committed, and there is no command if it is.
C15_PublishBeforeEpochEnd ==
    (Live /\ tick_height < LiveState.epoch_ends) =>
        /\ cmd = IF LiveState.commit_datapoint_in_epoch
                 THEN None ELSE Some("PublishDataPoint")
        /\ LiveState.commit_datapoint_in_epoch =>
              (d_pc = "sleep" /\ tick_result = Ok("unit") /\ ~action.some)

\* before the end of the epoch an iteration found the datapoint committed
\* and ended without a command, and one before it planned a publish
C15_Witness ==
    /\ Live
    /\ tick_height < LiveState.epoch_ends
    /\ LiveState.commit_datapoint_in_epoch
    /\ cmd = None
    /\ \E i \in DOMAIN submitted : submitted[i].kind = "PublishDataPoint"

\* the step of the classifier
ClassifyStep == d_pc = "classify" /\ pool_state'.some

C17_LiveEpochWithoutLocalBox ==
    [][(/\ ClassifyStep
        /\ chain_pool_box.present
        /\ chain_pool_box.well_formed
        /\ ~chain_local_box.present
        /\ pool_state'.val = pool_state_of(get_live_epoch_state(
                                 ScanOf(TRUE, chain_pool_box), LocalScan(TRUE),
                                 EpochLength)))
          => /\ pool_state'.val.kind = "LiveEpoch"
             /\ ~pool_state'.val.state.commit_datapoint_in_epoch
      ]_vars

\* the build error that the iteration met, if any
BuildFailed == ~build_action_res.ok /\ build_action_res.err \notin {"none", "panic"}

NonFatal ==
    \/ /\ build_action_res.err = "RefreshActionError"
       /\ build_action_res.cause = "FailedToReachConsensus"
    \/ /\ build_action_res.err = "PublishDatapointActionError"
       /\ build_action_res.cause = "DataPointSource"

\* C18: of the build errors, FailedToReachConsensus and the feed failure of
\* a publish end the iteration with Ok(()) and no action; every other build
\* error is the error the iteration returns; a built action is the action
\* the iteration goes on with.
C18_ErrorFilter ==
    /\ (BuildFailed /\ NonFatal) =>
          (d_pc = "sleep" /\ tick_result = Ok("unit") /\ action = None)
    /\ (BuildFailed /\ ~NonFatal) =>
          (d_pc = "sleep" /\ tick_result = build_action_res /\ action = None)
    /\ build_action_res.ok =>
          /\ action = Some(build_action_res.val)
          /\ d_pc \in {"execute", "sleep"}
          /\ d_pc = "execute" => ~read_only

\* a refresh that ended in NotEnoughDatapoints was returned as an error
C18_Witness ==
    /\ BuildFailed
    /\ build_action_res.cause = "NotEnoughDatapoints"
    /\ tick_result = build_action_res

\* the iteration has failed: a step returned an error, or panicked
TickFailed ==
    \/ ~tick_result.ok /\ tick_result.err # "none"
    \/ ~build_action_res.ok /\ build_action_res.err # "none"

\* C19 as stated: whenever an iteration fails (a node, feed, box-validation
\* or wallet failure), the loop goes on and begins the next iteration.
C19_LoopSurvivesErrors ==
    \A n \in 1..(MaxTicks - 1) :
        (ticks = n /\ TickFailed) ~> (ticks = n + 1)

\* C20 as stated: once the node has taken a publish transaction of the
\* loop, no later iteration that sees the same epoch counter of the pool
\* box hands another publish transaction to execute_action.
C20_OnePublishPerEpoch ==
    \A i, j \in DOMAIN submitted :
        (/\ i < j
         /\ submitted[i].kind = "PublishDataPoint"
         /\ submitted[i].accepted
         /\ submitted[j].kind = "PublishDataPoint")
            => submitted[i].epoch_id # submitted[j].epoch_id

\* C21 as stated: the datapoint box of every publish transaction handed to
\* execute_action carries, as its epoch counter (R5), the epoch counter of
\* the pool box that is unspent on the chain at that moment.
C21_PublishEpochIsCurrent ==
    \A i \in DOMAIN submitted :
        submitted[i].kind = "PublishDataPoint" =>
            submitted[i].tx.output_candidates[1].epoch_counter
                = submitted[i].chain_epoch

\* the refresh transactions of the loop that lost the pool box they spend to
\* the refresh of another node
LostRefreshes ==
    {i \in DOMAIN submitted :
        /\ submitted[i].kind = "Refresh"
        /\ \E j \in DOMAIN refreshes :
              /\ refreshes[j].by = "other"
              /\ refreshes[j].spent = submitted[i].tx.inputs[1]}

\* the accepted refreshes form a chain from pool box to pool box that ends in
\* the pool box on the chain, each raising the epoch counter by one, no two
\* spending the same pool box
RefreshChain ==
    /\ \A j \in DOMAIN refreshes :
          /\ refreshes[j].epoch_after = refreshes[j].epoch_before + 1
          /\ j > 1 => /\ refreshes[j].epoch_before = refreshes[j - 1].epoch_after
                      /\ refreshes[j].spent > refreshes[j - 1].spent
    /\ refreshes # <<>> =>
          /\ chain_pool_box.present
          /\ chain_pool_box.epoch_counter = refreshes[Len(refreshes)].epoch_after
          /\ chain_pool_box.box_id > refreshes[Len(refreshes)].spent

\* C22: the epoch counter of the pool box on the chain never decreases and is
\* one higher after each accepted refresh, of the loop or of another node; of
\* the refreshes that spend the same pool box at most one is accepted; a
\* refresh of the loop that lost to another node's is not on the chain, and
\* its iteration ends as every other: the loop sleeps, with Ok(()) or the
\* error of execute_action.
C22_EpochCounterAndRefreshRace ==
    /\ [](/\ RefreshChain
          /\ \A i \in LostRefreshes :
                /\ \A j \in DOMAIN refreshes :
                      refreshes[j].spent = submitted[i].tx.inputs[1]
                          => refreshes[j].by = "other"
                /\ submitted[i].tick = ticks =>
                      /\ d_pc = "sleep"
                      /\ tick_result = IF submitted[i].accepted
                                       THEN Ok("unit") ELSE Err("execute_action"))
    /\ [][(chain_pool_box.present /\ chain_pool_box.well_formed) =>
             /\ chain_pool_box'.present
             /\ chain_pool_box'.epoch_counter >= chain_pool_box.epoch_counter
             /\ chain_pool_box'.epoch_counter - chain_pool_box.epoch_counter
                    = Len(refreshes') - Len(refreshes)
         ]_vars

\* the node took a refresh of the loop, and the chain took the refresh of
\* another node that spends the same pool box
C22_Witness ==
    /\ \E i \in LostRefreshes : submitted[i].accepted
    /\ mempool = <<>>
    /\ d_pc = "sleep"

\* the transactions that the iteration n handed to execute_action
SubmittedIn(n) == {i \in DOMAIN submitted : submitted[i].tick = n}

\* C23: every iteration hands at most one transaction to execute_action, and
\* the one it hands over is the action that build_action returned; it hands
\* over none when the planner has no command, when build_action fails
\* (whether the error is let pass or returned) and when the node does not
\* answer at the start of the iteration.
C23_OneTransactionPerTick ==
    /\ \A n \in 1..MaxTicks : Cardinality(SubmittedIn(n)) <= 1
    /\ \A i \in SubmittedIn(ticks) :
          /\ cmd.some
          /\ build_action_res.ok
          /\ action = Some(build_action_res.val)
          /\ submitted[i].tx = build_action_res.val.tx
          /\ ~read_only

\* the first iteration has handed over one transaction, the second none: its
\* build error was let pass
C23_Witness ==
    /\ Len(submitted) = 1
    /\ submitted[1].tick = 1
    /\ ticks = 2
    /\ BuildFailed
    /\ NonFatal
    /\ d_pc = "sleep"

\* C27 as stated: a box of the all-datapoints scan that fails the validation
\* of OracleBoxWrapper::new makes build_action return an error, which ends
\* the iteration; the validation of a datapoint box never stops the loop.
C27_InvalidDatapointBoxIsAnError ==
    d_pc = "stopped" => build_action_res.msg # "unwrap: OracleBoxError"

----------------------------------------------------------------------------
(* BuilderSpec: one call of build_subsequent_publish_datapoint_action, of  *)
(* build_publish_first_datapoint_action or of                              *)
(* build_transfer_oracle_token_action on bounded inputs.                   *)

\* most reward tokens in the operator's datapoint box
MaxRewardTokens == 3

\* the operator's datapoint box: none, a box that is no oracle box, or an
\* oracle box of some epoch, rate, value and number of reward tokens
LocalBoxes ==
    {NoBox, DatapointBox(10, my_oracle_pk, 1, 1, 95, FALSE)}
        \cup {[DatapointBox(10, my_oracle_pk, e, 1, r, TRUE) EXCEPT
                   !.reward_tokens = k, !.value = v] :
                 e \in 1..2, r \in {95, 200}, k \in 1..MaxRewardTokens,
                 v \in {min_storage_rent, 2 * min_storage_rent}}

Destinations == {P2Pk(my_oracle_pk), P2Pk(7), P2S}

BuilderInit ==
    /\ b_local_box \in LocalBoxes
    /\ b_wallet \in TokenWallets
    /\ b_destination \in Destinations
    /\ b_datapoint_source \in Feeds
    /\ b_new_epoch_counter \in 2..3
    /\ b_height = 2
    /\ b_call = "none"
    /\ b_result = NoResult
    /\ FilterIdle
    /\ RefreshIdle
    /\ DriverIdle
    /\ StartupIdle
    /\ OperatorsIdle

\* build_publish_datapoint_action, LocalDataPointBoxExists: the local box is
\* read from its source and handed to the builder
BuildSubsequentPublish ==
    /\ b_call = "none"
    /\ b_local_box.present
    /\ b_local_box.well_formed
    /\ b_call' = "publish"
    /\ b_result' = build_subsequent_publish_datapoint_action(
                       b_local_box, b_wallet, b_height, b_datapoint_source,
                       b_new_epoch_counter)
    /\ UNCHANGED <<b_local_box, b_wallet, b_destination, b_datapoint_source, b_new_epoch_counter, b_height>>
    /\ UNCHANGED <<filterVars, refreshVars, driverVars, startupVars, operatorsVars>>

\* build_publish_datapoint_action, FirstDataPoint
BuildFirstPublish ==
    /\ b_call = "none"
    /\ b_call' = "publish_first"
    /\ b_result' = build_publish_first_datapoint_action(
                       b_wallet, b_height, my_oracle_pk, b_datapoint_source)
    /\ UNCHANGED <<b_local_box, b_wallet, b_destination, b_datapoint_source, b_new_epoch_counter, b_height>>
    /\ UNCHANGED <<filterVars, refreshVars, driverVars, startupVars, operatorsVars>>

\* the command transfer-oracle-token, whether the node answers the scan or not
BuildTransfer ==
    /\ b_call = "none"
    /\ b_call' = "transfer"
    /\ \E node_ok \in BOOLEAN :
          b_result' = build_transfer_oracle_token_action(
                          ScanOf(node_ok, b_local_box), b_wallet, b_destination,
                          b_height)
    /\ UNCHANGED <<b_local_box, b_wallet, b_destination, b_datapoint_source, b_new_epoch_counter, b_height>>
    /\ UNCHANGED <<filterVars, refreshVars, driverVars, startupVars, operatorsVars>>

BuilderNext ==
    \/ BuildSubsequentPublish
    \/ BuildFirstPublish
    \/ BuildTransfer

BuilderSpec == BuilderInit /\ [][BuilderNext]_vars

----------------------------------------------------------------------------
(* Properties of the datapoint box builders (BuilderSpec).                 *)

\* the fields of a datapoint box candidate
CandidateOf(b) ==
    [contract |-> b.contract, public_key |-> b.public_key, rate |-> b.rate,
     epoch_counter |-> b.epoch_counter, oracle_token |-> b.oracle_token,
     reward_tokens |-> b.reward_tokens, value |-> b.value,
     creation_height |-> b.creation_height]

\* C24: the one output of a subsequent publish that succeeds is the input
\* datapoint box with the epoch counter (R5) replaced by the argument
\* new_epoch_counter, the rate (R6) by the rate of the feed and the creation
\* height by the argument height: contract, public key, oracle token, reward
\* tokens and value are the input's.
C24_SubsequentPublishFrame ==
    (b_call = "publish" /\ b_result.ok) =>
        /\ Len(b_result.val.output_candidates) = 1
        /\ b_result.val.output_candidates[1]
               = [CandidateOf(b_local_box) EXCEPT
                      !.epoch_counter = b_new_epoch_counter,
                      !.rate = b_datapoint_source.val,
                      !.creation_height = b_height]

\* a publish on a box of epoch 1 with three reward tokens, a value and a rate
\* of its own, for the pool's epoch 3
C24_Witness ==
    /\ b_call = "publish"
    /\ b_result.ok
    /\ b_local_box.epoch_counter = 1
    /\ b_new_epoch_counter = 3
    /\ b_local_box.reward_tokens = MaxRewardTokens
    /\ b_local_box.value = 2 * min_storage_rent
    /\ b_local_box.rate # b_datapoint_source.val

\* what the wallet lacks for a first publish
LacksForFirstPublish(wallet) ==
    \/ WalletContents(wallet).oracle_tokens < 1
    \/ WalletContents(wallet).reward_tokens < 1
    \/ WalletContents(wallet).nanoergs < min_storage_rent + BASE_FEE

\* C25: the one output of a first publish that succeeds, at index 0, is a
\* datapoint box of value min_storage_rent with the operator's public key
\* (R4), epoch counter 1 (R5), the rate of the feed (R6), one oracle token and
\* one reward token, however many reward tokens the wallet holds; a first
\* publish fails, with no transaction, on a wallet without an oracle token,
\* without a reward token or with less than min_storage_rent plus the fee.
C25_FirstPublishOutput ==
    b_call = "publish_first" =>
        /\ b_result.ok =>
              /\ Len(b_result.val.output_candidates) = 1
              /\ b_result.val.output_candidates[1]
                     = [contract |-> "oracle", public_key |-> my_oracle_pk,
                        rate |-> b_datapoint_source.val, epoch_counter |-> 1,
                        oracle_token |-> 1, reward_tokens |-> 1,
                        value |-> min_storage_rent, creation_height |-> b_height]
        /\ LacksForFirstPublish(b_wallet) =>
              (~b_result.ok /\ b_result.err # "panic")

\* a first publish from a wallet with more than one reward token
C25_Witness ==
    /\ b_call = "publish_first"
    /\ b_result.ok
    /\ WalletContents(b_wallet).reward_tokens > 1

\* the box that the transfer reads: the local scan has answered with an
\* oracle box
TransferRead ==
    /\ b_call = "transfer"
    /\ b_local_box.present
    /\ b_local_box.well_formed
    /\ ~(~b_result.ok /\ b_result.err = "StageError")

\* C29: a transfer of the oracle token fails with
\* IncorrectNumberOfRewardTokensInOracleBox(k) when the local datapoint box
\* holds k reward tokens and k is not 1, whatever the destination; with one
\* reward token it fails with IncorrectDestinationAddress when the
\* destination is no P2PK address; neither failure returns a transaction.
C29_TransferPreconditions ==
    TransferRead =>
        /\ b_local_box.reward_tokens # 1 =>
              b_result = [ok |-> FALSE,
                          err |-> "IncorrectNumberOfRewardTokensInOracleBox",
                          num_reward_tokens |-> b_local_box.reward_tokens]
        /\ (b_local_box.reward_tokens = 1 /\ b_destination.kind # "P2Pk") =>
              b_result = Err("IncorrectDestinationAddress")

\* a transfer to a script address from a box with two reward tokens has
\* failed on the reward tokens
C29_Witness ==
    /\ TransferRead
    /\ b_local_box.reward_tokens = 2
    /\ b_destination.kind # "P2Pk"
    /\ b_result.err = "IncorrectNumberOfRewardTokensInOracleBox"

\* C30: the one output of a transfer that succeeds is the input datapoint box
\* with the public key (R4) of the destination and the creation height of the
\* call: contract, value, epoch counter (R5) and rate (R6) are the input's,
\* and it holds the oracle token and one reward token.
C30_TransferFrame ==
    (TransferRead /\ b_result.ok) =>
        /\ Len(b_result.val.output_candidates) = 1
        /\ b_result.val.output_candidates[1]
               = [CandidateOf(b_local_box) EXCEPT
                      !.public_key = b_destination.h,
                      !.creation_height = b_height]
        /\ b_result.val.output_candidates[1].oracle_token = 1
        /\ b_result.val.output_candidates[1].reward_tokens = 1

\* a transfer to the key of another oracle, of a box of epoch 2 with a value
\* and a rate of its own
C30_Witness ==
    /\ TransferRead
    /\ b_result.ok
    /\ b_destination.h # b_local_box.public_key
    /\ b_local_box.epoch_counter = 2
    /\ b_local_box.rate = 200
    /\ b_local_box.value = 2 * min_storage_rent

----------------------------------------------------------------------------
(* Further properties of the loop (DriverSpec).                            *)

\* C31: in read-only mode no iteration comes to execute_action and nothing
\* is ever handed to the node, whatever is planned and built.
C31_ReadOnlySubmitsNothing ==
    read_only => (submitted = <<>> /\ mempool = <<>> /\ d_pc # "execute")

\* in read-only mode an action was built, and the iteration ended with Ok(())
C31_Witness ==
    /\ read_only
    /\ build_action_res.ok
    /\ action.some
    /\ d_pc = "sleep"
    /\ tick_result = Ok("unit")

----------------------------------------------------------------------------
(* StartupSpec: the start of the run command, handle_oracle_command of     *)
(* main.rs: register_and_save_scans, then the loop.  The sidecar is the    *)
(* file scanIDs.json.  The node, the file system and the contract loader   *)
(* may fail; their outcomes are inputs of the step.                        *)

\* the hashes of a pool contract and the reward token ids in the bounds
StartupHashes == {1, 2}

StartupTokens == {1, 2}

\* the scan ids of the file the process finds, and those of a new registration
OldScanIds == 1

NewScanIds == 2

Sidecar(ids) == [present |-> TRUE, scan_ids |-> ids]

\* what the steps of the closure register_scans may meet
StartupEnvs == [node_ok : BOOLEAN, ballot_contract_ok : BOOLEAN, save_ok : BOOLEAN, rescan_ok : BOOLEAN]

\* the state of the node and of the file, with the Result of the call
StartupOutcome(sidecar, node_scans, rescans, writes, result) ==
    [sidecar |-> sidecar, node_scans |-> node_scans, rescans |-> rescans, writes |-> writes, result |-> result]

\* oracle_state.rs 535-592, the closure register_scans
register_scans(sidecar, env) ==
    IF ~env.node_ok
    THEN StartupOutcome(sidecar, 0, 0, 0, Panic("called Result::unwrap() on an Err value"))
    ELSE IF ~env.ballot_contract_ok
    THEN StartupOutcome(sidecar, 1, 0, 0, Err("BallotContractError"))
    ELSE LET saved == IF env.save_ok THEN Sidecar(NewScanIds) ELSE sidecar
             writes == IF env.save_ok THEN 1 ELSE 0
         IN  IF ~env.rescan_ok
             THEN StartupOutcome(saved, 1, 0, writes, Err("NodeError"))
             ELSE IF env.save_ok
             THEN StartupOutcome(saved, 1, 1, writes, Ok("unit"))
             ELSE StartupOutcome(saved, 1, 1, writes, Panic("save_scan_ids_locally"))

\* lines 605-620: the pool box seen through the old scans against the config
pool_hash_changed(pool_box, config) == pool_box.ergo_tree_hash # config[1]

reward_tokens_changed(pool_box, config) == pool_box.reward_token_id # config[2]

\* PoolBoxWrapper::new with the wrapper inputs of the config: a box of
\* another script, or without the reward token of the config, is refused
PoolBoxWrapper_new_with(b, inputs) ==
    IF b.ergo_tree_hash # inputs[1] THEN Err("PoolBoxError")
    ELSE IF b.reward_token_id # inputs[2] THEN Err("PoolBoxError")
    ELSE Ok(b)

\* oracle_state.rs 420-425 with 251-254: get_pool_box of the OraclePool that
\* line 601 makes from the old sidecar and the config
startup_get_pool_box(scan_res, config) ==
    IF ~scan_res.ok THEN scan_res ELSE PoolBoxWrapper_new_with(scan_res.val, config)

\* oracle_state.rs 523-623: register_and_save_scans up to the wait for the
\* rescan
register_and_save_scans(sidecar, scan_res, config, env) ==
    IF ~sidecar.present
    THEN register_scans(sidecar, env)
    ELSE LET scan_pool_box_wrapper == startup_get_pool_box(scan_res, config)
         IN  IF ~scan_pool_box_wrapper.ok
             THEN StartupOutcome(sidecar, 0, 0, 0, scan_pool_box_wrapper)
             ELSE IF pool_hash_changed(scan_pool_box_wrapper.val, config) \/ reward_tokens_changed(scan_pool_box_wrapper.val, config)
             THEN register_scans(sidecar, env)
             ELSE StartupOutcome(sidecar, 0, 0, 0, Ok("unit"))

StartupInit ==
    /\ s_config \in StartupHashes \X StartupTokens
    /\ s_sidecar_at_start \in {NoBox, Sidecar(OldScanIds)}
    /\ s_sidecar = s_sidecar_at_start
    /\ s_pool_box \in {Err("NoBoxesFound")} \cup {Ok([ergo_tree_hash |-> t, reward_token_id |-> r]) : <<t, r>> \in StartupHashes \X StartupTokens}
    /\ s_node_scans = 0
    /\ s_rescans = 0
    /\ s_writes = 0
    /\ s_pc = "start"
    /\ s_result = NoResult
    /\ s_iterations = 0
    /\ FilterIdle
    /\ RefreshIdle
    /\ DriverIdle
    /\ BuilderIdle
    /\ OperatorsIdle

\* main.rs 231: register_and_save_scans().unwrap(), up to the wait loop
RegisterAndSaveScans ==
    /\ s_pc = "start"
    /\ \E env \in StartupEnvs :
         LET out == register_and_save_scans(s_sidecar, s_pool_box, s_config, env)
         IN  /\ s_sidecar' = out.sidecar
             /\ s_node_scans' = s_node_scans + out.node_scans
             /\ s_rescans' = s_rescans + out.rescans
             /\ s_writes' = s_writes + out.writes
             /\ s_result' = out.result
             /\ s_pc' = IF out.result.ok THEN "wait" ELSE "stopped"
    /\ UNCHANGED <<s_config, s_sidecar_at_start, s_pool_box, s_iterations>>
    /\ UNCHANGED <<filterVars, refreshVars, driverVars, builderVars, operatorsVars>>

\* oracle_state.rs 625-634: poll until the wallet has scanned every block;
\* main.rs 232-233: then OraclePool::new().unwrap() and the loop
WaitForRescan ==
    /\ s_pc = "wait"
    /\ \E status_ok \in BOOLEAN, scanned \in BOOLEAN :
         IF ~status_ok
         THEN s_pc' = "stopped" /\ s_result' = Err("NodeError")
         ELSE IF scanned
         THEN s_pc' = "loop" /\ s_result' = Ok("unit")
         ELSE UNCHANGED <<s_pc, s_result>>
    /\ UNCHANGED <<s_config, s_sidecar_at_start, s_sidecar, s_pool_box, s_node_scans, s_rescans, s_writes, s_iterations>>
    /\ UNCHANGED <<filterVars, refreshVars, driverVars, builderVars, operatorsVars>>

\* main.rs 246-253: an iteration of the loop; nothing in main_loop_iteration
\* registers a scan, asks for a rescan or writes scanIDs.json
LoopIteration ==
    /\ s_pc = "loop"
    /\ s_iterations < MaxTicks
    /\ s_iterations' = s_iterations + 1
    /\ UNCHANGED <<s_config, s_sidecar_at_start, s_sidecar, s_pool_box, s_node_scans, s_rescans, s_writes, s_pc, s_result>>
    /\ UNCHANGED <<filterVars, refreshVars, driverVars, builderVars, operatorsVars>>

StartupNext ==
    \/ RegisterAndSaveScans
    \/ WaitForRescan
    \/ LoopIteration

StartupSpec == StartupInit /\ [][StartupNext]_vars

\* the sidecar is absent, or the pool box that the node shows differs from
\* the config
ScansOutOfDate ==
    \/ ~s_sidecar_at_start.present
    \/ /\ s_pool_box.ok
       /\ \/ s_pool_box.val.ergo_tree_hash # s_config[1]
          \/ s_pool_box.val.reward_token_id # s_config[2]

\* the start has registered the scans, written the sidecar and asked for a
\* rescan
Reregistered ==
    /\ s_node_scans = 1
    /\ s_writes = 1
    /\ s_sidecar = Sidecar(NewScanIds)
    /\ s_rescans = 1

\* the start has left the node and the sidecar alone
Untouched ==
    /\ s_node_scans = 0
    /\ s_writes = 0
    /\ s_sidecar = s_sidecar_at_start
    /\ s_rescans = 0

\* the node, the file system or the ballot contract failed in register_scans
RegistrationFailed ==
    s_result \in {Panic("called Result::unwrap() on an Err value"), Err("BallotContractError"), Err("NodeError"), Panic("save_scan_ids_locally")}

\* C32: unless the node, the file system or a contract fails, the start
\* registers the scans, rewrites the sidecar and asks for a rescan exactly
\* when the sidecar was absent or the pool box differed from the config in
\* contract hash or reward token, and touches nothing otherwise; the sidecar
\* is written at most once, and no step after the start writes it.
C32_SidecarPolicy ==
    /\ [](/\ s_writes <= 1
          /\ (s_pc \notin {"idle", "start"} /\ ScansOutOfDate /\ ~RegistrationFailed) => Reregistered
          /\ ~ScansOutOfDate => Untouched)
    /\ [][s_pc # "start" => UNCHANGED <<s_sidecar, s_writes, s_node_scans, s_rescans>>]_vars

\* the parts of C32 that hold: the scans are registered only when they are
\* out of date, the sidecar is written at most once, and never in the loop
C32_SidecarWrittenOnce ==
    /\ [](/\ s_writes <= 1
          /\ ~ScansOutOfDate => Untouched
          /\ s_pc \in {"wait", "loop"} => (Reregistered \/ Untouched))
    /\ [][s_pc # "start" => UNCHANGED <<s_sidecar, s_writes, s_node_scans, s_rescans>>]_vars

----------------------------------------------------------------------------
(* The loop without a pool box (DriverSpec).                              *)

\* the iteration has classified the pool as in need of a bootstrap
NeedsBootstrapTick == pool_state.some /\ pool_state.val.kind = "NeedsBootstrap"

\* C33: an iteration whose classifier yields NeedsBootstrap builds no
\* transaction, hands none to execute_action and leaves the loop running for
\* the next iteration.
C33_NeedsBootstrapTickIsSkipped ==
    NeedsBootstrapTick =>
        /\ ~build_action_res.ok
        /\ action = None
        /\ SubmittedIn(ticks) = {}
        /\ d_pc # "stopped"

\* what holds of such an iteration: it builds and hands over nothing
C33_NeedsBootstrapTickSubmitsNothing ==
    NeedsBootstrapTick =>
        /\ ~build_action_res.ok
        /\ action = None
        /\ SubmittedIn(ticks) = {}

----------------------------------------------------------------------------
(* Further properties of build_refresh_action (Spec).                      *)

\* the retained boxes that carry the operator's public key
MyRetainedBoxes == {i \in DOMAIN Consumed : Consumed[i].public_key = my_oracle_pk}

\* what each output oracle box holds in reward tokens above its input box
RewardIncrements ==
    [i \in DOMAIN Consumed |-> OutOracleBox(i).reward_tokens - Consumed[i].reward_tokens]

\* C35: in a built refresh with exactly one retained box of the operator's
\* key, the reward tokens that the output oracle boxes gain sum up to what
\* the pool box loses, twice the number of retained boxes.
C35_RewardTokensConserved ==
    (Built /\ Cardinality(MyRetainedBoxes) = 1) =>
        /\ SeqSum(RewardIncrements) = in_pool_box.reward_tokens - OutPoolBox.reward_tokens
        /\ SeqSum(RewardIncrements) = 2 * Len(Consumed)

\* a refresh of three retained boxes, one of them the operator's
C35_Witness ==
    /\ Built
    /\ Cardinality(MyRetainedBoxes) = 1
    /\ Len(Consumed) = 3
    /\ SeqSum(RewardIncrements) = 6

------------------------------------------------------------------

----------------------------------------------------------------------------
(* Termination of the deviation filter (FilterSpec).                       *)

\* how often the body of the while loop has run: the removals done, and the
\* one that returned the error
BodyRuns == iterations + (IF f_pc = "returned" /\ ~f_result.ok THEN 1 ELSE 0)

\* a step of the loop body that removes
TrimmingStep == f_pc = "loop" /\ f_pc' = "loop" /\ iterations' = iterations + 1

\* C38: the loop of filtered_oracle_boxes_by_rate ends.  Every run of the
\* loop body that removes leaves a shorter list that is not empty, so the
\* list is never empty where the loop reads its min and max, and the body
\* runs fewer times than the input is long; the call returns a list that
\* passes the deviation check or NotEnoughDatapoints; an empty input is
\* returned as it is, without a run of the body.
C38_FilterTerminates ==
    /\ [][TrimmingStep =>
             /\ Len(successful_boxes') < Len(successful_boxes)
             /\ successful_boxes' # <<>>]_vars
    /\ [](f_pc = "loop" =>
             /\ successful_boxes # <<>>
             /\ iterations + Len(successful_boxes) <= Len(oracle_boxes)
             /\ iterations < Len(oracle_boxes))
    /\ [](f_pc = "returned" =>
             IF oracle_boxes = <<>>
             THEN f_result = Ok(<<>>) /\ iterations = 0
             ELSE /\ BodyRuns < Len(oracle_boxes)
                  /\ f_result.ok => deviation_check(deviation_range, f_result.val)
                  /\ ~f_result.ok => f_result.err = "NotEnoughDatapoints")

\* a call on four rates that has removed twice and returned
C38_Witness ==
    /\ f_pc = "returned"
    /\ Len(oracle_boxes) = 4
    /\ iterations = 2
    /\ f_result.ok

----------------------------------------------------------------------------
(* The freshness threshold below the epoch length (Spec).                  *)

\* the datapoint boxes with the epoch counter of the pool box, sorted by rate
CurrentEpochBoxes ==
    sort_by_rate(SelectSeq(datapoint_stage,
                           LAMBDA b : b.epoch_counter = in_pool_box.epoch_counter))

\* what the call returns on those boxes, with the wallet in a given state
BuildOnCurrentEpochBoxes(wallet) ==
    LET valid_datapoints ==
            filtered_oracle_boxes_by_rate(Rates(CurrentEpochBoxes), max_deviation_percent)
    IN  IF ~valid_datapoints.ok THEN valid_datapoints
        ELSE build_refresh_outputs(
                 in_pool_box, in_refresh_box,
                 valid_in_oracle_boxes_of(CurrentEpochBoxes, valid_datapoints.val),
                 min_data_points, wallet, height, my_oracle_pk)

\* C39: at a height below the epoch length the threshold height -
\* epoch_length is below every creation height, so the call does not abort on
\* the subtraction and returns what it returns on all the datapoint boxes
\* with the pool box's epoch counter.
C39_ThresholdWithoutWraparound ==
    (r_pc # "call" /\ height < in_refresh_box.epoch_length) =>
        /\ r_pc # "panicked"
        /\ \E wallet \in Wallets : r_result = BuildOnCurrentEpochBoxes(wallet)

----------------------------------------------------------------------------
(* The distance between two refreshes (DriverSpec).                        *)

\* the refreshes of the loop that the chain has accepted
OwnRefreshes == {j \in DOMAIN refreshes : refreshes[j].by = "self"}

\* C37: the pool box that a refresh of the loop leaves on the chain is
\* created at least one epoch length above the pool box that it spends.
C37_RefreshesAnEpochApart ==
    \A j \in OwnRefreshes :
        refreshes[j].created_after >= refreshes[j].created_before + EpochLength

\* a refresh of the loop is on the chain, built at the very height at which
\* the epoch of the pool box it spends was over
C37_Witness ==
    \E j \in OwnRefreshes :
        refreshes[j].created_after = refreshes[j].created_before + EpochLength

----------------------------------------------------------------------------
(* A datapoint enters one pool rate (DriverSpec).                          *)

\* the step builds a refresh action
BuildsRefresh ==
    /\ d_pc = "build"
    /\ build_action_res'.ok
    /\ build_action_res'.val.kind = "Refresh"

\* the epoch counters of the pool boxes that accepted refreshes have spent
SpentEpochs == {refreshes[j].epoch_before : j \in DOMAIN refreshes}

\* C36: every accepted refresh spends a pool box with a higher epoch counter
\* than the refreshes before it, and the pool box on the chain has a higher
\* one still; a refresh that the loop builds takes the operator's datapoint
\* box only with the epoch counter of the pool box on the chain.  So a
\* datapoint box with the epoch counter of a pool box that a refresh has
\* spent is in no later refresh.
C36_DatapointInOneRefresh ==
    /\ [](/\ \A i, j \in DOMAIN refreshes :
                i < j => refreshes[i].epoch_before < refreshes[j].epoch_before
          /\ \A e \in SpentEpochs :
                chain_pool_box.present /\ chain_pool_box.epoch_counter > e)
    /\ [][(/\ BuildsRefresh
           /\ chain_local_box.present
           /\ chain_local_box.box_id \in SeqToSet(build_action_res'.val.tx.inputs))
             => /\ chain_local_box.epoch_counter = chain_pool_box.epoch_counter
                /\ chain_local_box.epoch_counter \notin SpentEpochs]_vars

\* the refresh of another node has spent the pool box of the epoch of the
\* operator's datapoint box; the refresh that the loop then builds has a
\* quorum of the other oracles' boxes and leaves the operator's box out
C36_Witness ==
    /\ refreshes # <<>>
    /\ chain_local_box.present
    /\ chain_local_box.epoch_counter \in SpentEpochs
    /\ cmd = Some("Refresh")
    /\ ~build_action_res.ok
    /\ build_action_res.err = "RefreshActionError"
    /\ build_action_res.cause = "MyOracleBoxNoFound"

----------------------------------------------------------------------------
(* OperatorsSpec: the operators of one pool, min_data_points of them, each *)
(* running the loop of Command::Run with a working feed that reports the   *)
(* same rate and a funded wallet, on a chain that grows.  An iteration of  *)
(* a loop is one step: the transaction it submits is taken by the node and *)
(* is on the chain when the next iteration, of any operator, begins.       *)

Operators == 1..min_data_points

\* the epochs that are modelled: the loops stop when the pool box carries
\* the epoch counter MaxEpochs
MaxEpochs == 3

\* Heights are kept relative to the height of the chain, which is written
\* ViewHeight, and a box created an epoch length or more below it is kept at
\* OldestHeight.  The code compares a creation height with the height in two
\* places: creation_height + epoch_length with height (epoch_ends, the
\* planner) and creation_height with height - epoch_length (refresh.rs, lines
\* 76 and 82); neither tells how much more than an epoch length a box is old.
ViewHeight == 2 * EpochLength

OldestHeight == ViewHeight - EpochLength

\* the pool box and the datapoint box of operator i on the chain
OperatorsPoolBox(epoch, created) ==
    [DriverPoolBox(epoch, TRUE) EXCEPT !.creation_height = created]

OperatorBox(i, epoch, created) ==
    DatapointBox(10 + i, i, epoch, created, FeedRate, TRUE)

\* the all-datapoints scan: the boxes of the operators
OperatorsStage(boxes) == [node_ok |-> TRUE, boxes |-> [i \in Operators |-> boxes[i]]]

\* build_action, PoolCommand::Refresh, of the operator whose key is pk
build_action_refresh_of(pk, pool_box_scan, stage_scan, wallet, h) ==
    LET pool_box == get_pool_box(pool_box_scan)
        boxes == get_oracle_datapoint_boxes(stage_scan)
    IN  IF ~pool_box.ok THEN PoolCommandError("RefreshActionError", Err("StageError"))
        ELSE IF ~boxes.ok THEN PoolCommandError("RefreshActionError", boxes)
        ELSE LET r == build_refresh_action(
                          pool_box.val, RefreshBox, boxes.val, max_deviation_percent,
                          min_data_points, wallet, h, pk, FALSE)
             IN  IF r.ok THEN Ok(PoolAction("Refresh", r.val))
                 ELSE PoolCommandError("RefreshActionError", r)

\* main_loop_iteration of the operator whose key is pk, up to the action to
\* execute: the classifier, the planner, build_action and the error filter
main_loop_iteration_of(pk, pool_box, local_box, boxes, h) ==
    LET pool_box_scan == ScanOf(TRUE, pool_box)
        local_scan == Some(ScanOf(TRUE, local_box))
        state == pool_state_of(
                     get_live_epoch_state(pool_box_scan, local_scan, EpochLength))
        command == planned_command(state, EpochLength, h)
    IN  IF ~command.some THEN [planned |-> None, action |-> Ok(None)]
        ELSE [planned |-> command,
              action |-> log_and_continue_if_non_fatal(
                  IF command.val = "Bootstrap" THEN Panic("not yet implemented")
                  ELSE IF command.val = "Refresh"
                  THEN build_action_refresh_of(pk, pool_box_scan,
                                               OperatorsStage(boxes), "funded", h)
                  ELSE build_action_publish(pool_box_scan, local_scan, "funded", h,
                                            Ok(FeedRate)))]

\* the datapoint boxes after a refresh transaction: a box among the inputs
\* is replaced by the collected box at the same place of the outputs
AfterRefresh(boxes, tx) ==
    [j \in Operators |->
        IF \E k \in DOMAIN tx.inputs : tx.inputs[k] = boxes[j].box_id
        THEN LET k == CHOOSE k \in DOMAIN tx.inputs : tx.inputs[k] = boxes[j].box_id
             IN  [boxes[j] EXCEPT !.creation_height = tx.creation_height,
                                  !.reward_tokens = tx.output_candidates[k].reward_tokens]
        ELSE boxes[j]]

OperatorsInit ==
    /\ \E c \in OldestHeight..ViewHeight : o_pool_box = OperatorsPoolBox(1, c)
    \* every operator has a datapoint box: of the last epoch, created no
    \* later than the pool box, or of this epoch, created no earlier
    /\ o_oracle_boxes \in [Operators ->
           {OperatorBox(i, e, c) : i \in Operators, e \in 0..1,
                                   c \in OldestHeight..ViewHeight}]
    /\ \A i \in Operators :
          /\ o_oracle_boxes[i].public_key = i
          /\ o_oracle_boxes[i].epoch_counter = 0 =>
                 o_oracle_boxes[i].creation_height <= o_pool_box.creation_height
          /\ o_oracle_boxes[i].epoch_counter = 1 =>
                 o_oracle_boxes[i].creation_height >= o_pool_box.creation_height
    /\ o_last = [i \in Operators |-> "sleep"]
    /\ o_iterations = [i \in Operators |-> 0]
    /\ FilterIdle
    /\ RefreshIdle
    /\ DriverIdle
    /\ BuilderIdle
    /\ StartupIdle

\* one iteration of the loop of operator i (main.rs, lines 246-250), the
\* transaction of its action on the chain at once
OperatorTick(i) ==
    /\ o_pool_box.epoch_counter < MaxEpochs
    /\ \E it \in {main_loop_iteration_of(i, o_pool_box, o_oracle_boxes[i],
                                          o_oracle_boxes, ViewHeight)} :
           IF it.action.ok /\ it.action.val.some
           THEN LET a == it.action.val.val
                IN  IF a.kind = "PublishDataPoint"
                    THEN /\ o_oracle_boxes' =
                                [o_oracle_boxes EXCEPT ![i] =
                                    [present |-> TRUE, well_formed |-> TRUE,
                                     box_id |-> o_oracle_boxes[i].box_id]
                                        @@ a.tx.output_candidates[1]]
                         /\ o_last' = [o_last EXCEPT ![i] = "published"]
                         /\ UNCHANGED o_pool_box
                    ELSE /\ o_pool_box' =
                                [present |-> TRUE, well_formed |-> TRUE,
                                 box_id |-> o_pool_box.box_id + 1]
                                    @@ a.tx.output_candidates[1]
                         /\ o_oracle_boxes' = AfterRefresh(o_oracle_boxes, a.tx)
                         /\ o_last' = [o_last EXCEPT ![i] = "refreshed"]
           ELSE /\ o_last' = [o_last EXCEPT ![i] =
                                 IF ~it.action.ok THEN "error"
                                 ELSE IF it.planned.some THEN "skipped"
                                 ELSE "no command"]
                /\ UNCHANGED <<o_pool_box, o_oracle_boxes>>
    /\ o_iterations' = [o_iterations EXCEPT ![i] = (@ + 1) % 2]
    /\ UNCHANGED <<filterVars, refreshVars, driverVars, builderVars, startupVars>>

\* a box one block older
OneBlockOlder(b) ==
    [b EXCEPT !.creation_height = IF @ > OldestHeight THEN @ - 1 ELSE OldestHeight]

\* the chain grows by a block
OperatorsNewBlock ==
    /\ o_pool_box' = OneBlockOlder(o_pool_box)
    /\ o_oracle_boxes' = [i \in Operators |-> OneBlockOlder(o_oracle_boxes[i])]
    /\ UNCHANGED <<o_last, o_iterations>>
    /\ UNCHANGED <<filterVars, refreshVars, driverVars, builderVars, startupVars>>

OperatorsNext ==
    \/ \E i \in Operators : OperatorTick(i)
    \/ OperatorsNewBlock

\* every loop runs for ever (main.rs, line 247: an iteration, a sleep, the
\* next iteration, whatever the iteration returned) up to the last modelled
\* epoch, and the chain keeps growing
OperatorsFairness ==
    /\ \A i \in Operators :
          \/ []<><<OperatorTick(i)>>_vars
          \/ <>[](o_pool_box.epoch_counter = MaxEpochs)
    /\ WF_vars(OperatorsNewBlock)

OperatorsSpec == OperatorsInit /\ [][OperatorsNext]_vars

OperatorsLiveSpec == OperatorsInit /\ [][OperatorsNext]_vars /\ OperatorsFairness

----------------------------------------------------------------------------
(* Progress of the pool (OperatorsLiveSpec).                               *)

\* the epoch of the pool box is over
EpochOver == ViewHeight >= o_pool_box.creation_height + EpochLength

\* the datapoint boxes a refresh would take now
FreshDatapoints ==
    {i \in Operators :
        is_current_datapoint(o_oracle_boxes[i], ViewHeight, EpochLength,
                             o_pool_box.epoch_counter)}

\* the epoch is over with fewer than min_data_points fresh datapoints
StuckEpoch ==
    /\ o_pool_box.epoch_counter < MaxEpochs
    /\ EpochOver
    /\ Cardinality(FreshDatapoints) < min_data_points

\* C34: with min_data_points operators running the loop, working feeds,
\* funded wallets, equal rates and a chain that keeps growing, the epoch
\* counter of the pool box increases in the end from every LiveEpoch state
\* (of the epochs below MaxEpochs, where the modelled loops stop).
C34_EpochEventuallyAdvances ==
    \A e \in 1..(MaxEpochs - 1) :
        (o_pool_box.epoch_counter = e) ~> (o_pool_box.epoch_counter > e)

\* an epoch that is over with too few fresh datapoints stays so: every
\* operator is told to refresh, none to publish, and no datapoint box is
\* made: the boxes only age
C34_StuckEpochStaysStuck ==
    [][StuckEpoch => (StuckEpoch' /\ o_pool_box'.epoch_counter = o_pool_box.epoch_counter
                      /\ \A i \in Operators :
                            o_oracle_boxes'[i].creation_height
                                <= o_oracle_boxes[i].creation_height)]_vars

\* the pool is stuck and an operator's refresh has just been skipped
C34_StuckAfterSkippedRefresh ==
    /\ StuckEpoch
    /\ \E i \in Operators : o_last[i] = "skipped"

\* the pool is stuck in an epoch in which every operator has published: the
\* datapoints are too old by the time the epoch is over
C34_StuckWithAllPublished ==
    /\ StuckEpoch
    /\ \A i \in Operators :
          o_oracle_boxes[i].epoch_counter = o_pool_box.epoch_counter

====
